---- MODULE Spec2Model ----
(***************************************************************************)
(* A model of the vscode-demangler extension: the demangler core (scan of  *)
(* document ranges for mangled symbols, the demangle cache, invalidation   *)
(* on configuration changes), the path settings of each demangler, and the *)
(* decorator that schedules the core on editor events.                     *)
(*                                                                         *)
(* Asynchrony: demangleSymbolsInRanges is an async function that awaits    *)
(* once per scanned symbol.  Each stretch of code between two awaits is    *)
(* one action.  The continuations of the awaits are run by Node as         *)
(* microtasks, first in first out, and a new event or timer is taken only  *)
(* when none is left; events the editor delivers in one batch run back to  *)
(* back, before the continuations they queued.                             *)
(***************************************************************************)
EXTENDS Integers, Sequences, FiniteSets, TLC

VARIABLES
  platform,                 \* process.platform, fixed for a run
  phase,                    \* how far extension activation has got
  toolPathSetting,          \* the user's demangler.<section>.toolPath settings
  warnIfToolPathIsInvalid,  \* the demangler.<section>.warnIfToolPathIsInvalid settings
  warningMessages,          \* the warnings shown and not yet answered, per demangler
  currentToolPath,          \* DemanglerPathSettings.currentToolPath, per demangler
  canSpawnTool,             \* DemanglerPathSettings.canSpawnTool, per demangler
  demangleCache,            \* DemanglerCore.demangleCache
  visibleTextEditors,       \* vscode.window.visibleTextEditors
  activeTextEditor,         \* vscode.window.activeTextEditor
  documents,                \* the text of each editor's document
  visibleRanges,            \* each editor's visibleRanges
  decorations,              \* what editor.setDecorations last received, per editor
  selections,               \* each editor's selections
  activeDemangledSymbol,    \* DemanglingCopier.activeDemangledSymbol
  timers,                   \* the pending setTimeout timers
  changeVisibleRangesTimer, \* DemanglingDecorator.changeVisibleRangesTimer
  calls,                    \* the demangleSymbolsInRanges calls in flight, in the
                            \* order their continuations are queued
  draining,                 \* whether Node is running the queued continuations
  lookups,                  \* history: the cache lookups made by the last step
  reports,                  \* history: the updateAvailability calls of the last step
  notices,                  \* history: the clears and the firings of the last step
  copied,                   \* history: what the copy command did, if the last step ran it
  answered,                 \* history: the answer to a warning, if the last step was one
  attempted,                \* history: the symbols demangled since the last clear
  staleKeys,                \* history: cached keys stored before the last invalidation
  clearedCache,             \* history: the cache the last invalidation cleared
  writtenBefore,            \* history: the keys written before the last invalidation
                            \* and not since
  finished,                 \* history: the calls that ran in the current quiet period
  applied,                  \* history: whether the decorations and the active symbol
                            \* come from the latest run or from a superseded one
  burst,                    \* history: the current burst of visible-range events
  events,                   \* history: the number of editor and settings events so far
  scanner                   \* the scan loops of one demangleSymbolsInRanges call, step
                            \* by step, and the lastIndex of each demangler's pattern

vars == <<platform, phase, toolPathSetting, currentToolPath, canSpawnTool,
          demangleCache, visibleTextEditors, activeTextEditor, documents,
          visibleRanges, decorations, timers, changeVisibleRangesTimer, calls,
          draining, selections, activeDemangledSymbol, applied,
          lookups, reports, notices, copied, attempted, staleKeys, clearedCache, writtenBefore, finished, burst,
          events, scanner, warnIfToolPathIsInvalid, warningMessages, answered>>

\* The variables of the extension, which a step of the scan loops leaves alone.
extension == <<platform, phase, toolPathSetting, currentToolPath, canSpawnTool,
               demangleCache, visibleTextEditors, activeTextEditor, documents,
               visibleRanges, decorations, timers, changeVisibleRangesTimer, calls,
               draining, selections, activeDemangledSymbol, applied,
               lookups, reports, notices, copied, attempted, staleKeys, clearedCache,
               writtenBefore, finished, burst, events, warnIfToolPathIsInvalid,
               warningMessages, answered>>

-----------------------------------------------------------------------------
(* Text.  A line is a short text followed by `pad` blanks, so that a line   *)
(* of a megabyte is a small value.  Characters are one-character strings.   *)

Line(text, pad) == [text |-> text, pad |-> pad]

LineLength(l) == Len(l.text) + l.pad

\* The character at 0-based index i of a line's text (a blank in the padding
\* and past the end, where no pattern character matches).
CharAt(text, i) == IF i >= 0 /\ i < Len(text) THEN text[i + 1] ELSE " "

RECURSIVE Str(_)
\* The string made of a sequence of characters.
Str(cs) == IF cs = <<>> THEN "" ELSE Head(cs) \o Str(Tail(cs))

StartsWith(cs, prefix) ==
  /\ Len(cs) >= Len(prefix)
  /\ SubSeq(cs, 1, Len(prefix)) = prefix

Digits == {"0", "1", "2", "3", "4", "5", "6", "7", "8", "9"}

Letters ==
  {"a", "b", "c", "d", "e", "f", "g", "h", "i", "j", "k", "l", "m", "n", "o",
   "p", "q", "r", "s", "t", "u", "v", "w", "x", "y", "z",
   "A", "B", "C", "D", "E", "F", "G", "H", "I", "J", "K", "L", "M", "N", "O",
   "P", "Q", "R", "S", "T", "U", "V", "W", "X", "Y", "Z"}

\* The regular expression class \w.
WordChars == Letters \cup Digits \cup {"_"}

\* The class [_A-Za-z0-9$] of the Swift pattern.
SwiftChars == WordChars \cup {"$"}

RECURSIVE RunEnd(_, _, _)
\* The index after the longest run of characters of `class` starting at i.
RunEnd(text, i, class) ==
  IF i < Len(text) /\ CharAt(text, i) \in class
    THEN RunEnd(text, i + 1, class)
    ELSE i

\* /_{1,2}ZN?\d+\w+/ tried at index i: the index after the match, or -1.
\* After the underscores and Z, N? takes an N when there is one; \d+\w+ then
\* needs a digit followed by at least one more word character, and being
\* greedy runs to the end of the word.
CppMatchEnd(text, i) ==
  LET z == IF CharAt(text, i) # "_" THEN -1
           ELSE IF CharAt(text, i + 1) = "_" /\ CharAt(text, i + 2) = "Z" THEN i + 2
           ELSE IF CharAt(text, i + 1) = "Z" THEN i + 1
           ELSE -1
      d == IF CharAt(text, z + 1) = "N" THEN z + 2 ELSE z + 1
      e == RunEnd(text, d, WordChars)
  IN IF z >= 0 /\ CharAt(text, d) \in Digits /\ e - d >= 2 THEN e ELSE -1

\* The alternatives of the Swift pattern's prefix, in the pattern's order.
SwiftPrefixes ==
  << <<"%", "T">>, <<"_", "$", "s">>, <<"_", "$", "S">>, <<"$", "s">>,
     <<"$", "S">>, <<"_", "T">>, <<"s", ":">>,
     <<"@", "_", "_", "s", "w", "i", "f", "t", "m", "a", "c", "r", "o", "_">> >>

PrefixAt(text, i, p) ==
  /\ i + Len(p) <= Len(text)
  /\ SubSeq(text, i + 1, i + Len(p)) = p

\* /(%T|(_?\$[sS]|_T|s:|@__swiftmacro_))[_A-Za-z0-9$]+/ tried at index i.
SwiftMatchEnd(text, i) ==
  LET ks == {k \in 1..Len(SwiftPrefixes) :
               /\ PrefixAt(text, i, SwiftPrefixes[k])
               /\ CharAt(text, i + Len(SwiftPrefixes[k])) \in SwiftChars}
  IN IF ks = {} THEN -1
     ELSE LET k == CHOOSE k \in ks : \A j \in ks : k <= j
          IN RunEnd(text, i + Len(SwiftPrefixes[k]), SwiftChars)

\* The demanglers, in the order createAllDemanglers returns them.
demanglers == <<"c++", "swift">>

Demanglers == {demanglers[i] : i \in 1..Len(demanglers)}

\* mangledSymbolPattern of demangler d tried at index i of text.
MatchEnd(d, text, i) ==
  IF d = "c++" THEN CppMatchEnd(text, i) ELSE SwiftMatchEnd(text, i)

RECURSIVE ExecNotGlobal(_, _, _)
\* exec of a pattern without the global flag: the leftmost match of the
\* text, whatever lastIndex is, and lastIndex left as it was.
ExecNotGlobal(d, text, lastIndex) ==
  LET RECURSIVE First(_)
      First(i) ==
        IF i > Len(text) THEN [found |-> FALSE, lastIndex |-> lastIndex]
        ELSE LET Tried(e) ==
                   IF e >= 0
                     THEN [found |-> TRUE, index |-> i, lastIndex |-> lastIndex,
                           match |-> SubSeq(text, i + 1, e)]
                     ELSE First(i + 1)
             IN Tried(MatchEnd(d, text, i))
  IN First(0)

RECURSIVE Exec(_, _, _)
\* RegExp.prototype.exec of a global pattern whose lastIndex is `lastIndex`:
\* the leftmost match at or after lastIndex, and the lastIndex it leaves
\* (the end of the match, or 0 when there is none).
Exec(d, text, lastIndex) ==
  IF lastIndex > Len(text) THEN [found |-> FALSE, lastIndex |-> 0]
  ELSE LET Tried(e) ==
             IF e >= 0
               THEN [found |-> TRUE, index |-> lastIndex, lastIndex |-> e,
                     match |-> SubSeq(text, lastIndex + 1, e)]
               ELSE Exec(d, text, lastIndex + 1)
       IN Tried(MatchEnd(d, text, lastIndex))

RECURSIVE MatchLoop(_, _, _, _)
\* The while loop over exec() on one line: one mangledSymbols entry per match.
MatchLoop(d, text, line, lastIndex) ==
  LET Body(m) ==
        IF ~m.found THEN <<>>
        ELSE << [symbol |-> m.match, demangler |-> d,
                 position |-> [line |-> line, character |-> m.index]] >>
             \o MatchLoop(d, text, line, m.lastIndex)
  IN Body(Exec(d, text, lastIndex))

-----------------------------------------------------------------------------
(* Documents, positions and ranges (vscode.TextDocument, Position, Range). *)

Position(line, character) == [line |-> line, character |-> character]

Range(start, end) == [start |-> start, end |-> end]

Min(a, b) == IF a < b THEN a ELSE b

Max(a, b) == IF a > b THEN a ELSE b

RECURSIVE LineStart(_, _)
\* The offset of the first character of 0-based line n: every line before it
\* counts its length and one end-of-line character.
LineStart(doc, n) ==
  IF n = 0 THEN 0 ELSE LineStart(doc, n - 1) + LineLength(doc[n]) + 1

\* TextDocument.offsetAt: the position is adjusted into the document first.
offsetAt(doc, pos) ==
  IF pos.line >= Len(doc)
    THEN LineStart(doc, Len(doc) - 1) + LineLength(doc[Len(doc)])
    ELSE LineStart(doc, pos.line) + Min(pos.character, LineLength(doc[pos.line + 1]))

\* The largest range span, in characters, that is still scanned.
MaxRangeSpan == 1024 * 1024

\* isAvailable() of demangler d, given the canSpawnTool flags.
isAvailable(spawnable, d) == spawnable[d]

RECURSIVE ScanDemanglersLastFirst(_, _, _, _)
\* A loop over this.demanglers that ends with the first one.
ScanDemanglersLastFirst(spawnable, text, line, i) ==
  IF i > Len(demanglers) THEN <<>>
  ELSE ScanDemanglersLastFirst(spawnable, text, line, i + 1)
       \o (IF ~isAvailable(spawnable, demanglers[i]) THEN <<>>
           ELSE MatchLoop(demanglers[i], text, line, 0))

RECURSIVE ScanDemanglers(_, _, _, _)
\* The loop over this.demanglers for one line, from the i-th demangler on.
ScanDemanglers(spawnable, text, line, i) ==
  IF i > Len(demanglers) THEN <<>>
  ELSE (IF ~isAvailable(spawnable, demanglers[i]) THEN <<>>
        ELSE MatchLoop(demanglers[i], text, line, 0))
       \o ScanDemanglers(spawnable, text, line, i + 1)

RECURSIVE ScanLines(_, _, _, _)
\* The loop over the lines line..endLine-1 of the document.
ScanLines(spawnable, doc, line, endLine) ==
  IF line >= endLine THEN <<>>
  ELSE ScanDemanglers(spawnable, doc[line + 1].text, line, 1)
       \o ScanLines(spawnable, doc, line + 1, endLine)

\* A scan without a ceiling.
TooLargeNever(doc, range) == FALSE

\* Whether a range is skipped as too large.
TooLarge(doc, range) ==
  offsetAt(doc, range.end) - offsetAt(doc, range.start) > MaxRangeSpan

startLine(range) == Max(0, range.start.line - 1)

\* An end that stops after the last line of the range.
endLineOfRange(doc, range) == Min(range.end.line + 1, Len(doc))

endLine(doc, range) == Min(range.end.line + 2, Len(doc))

\* The body of the loop over ranges for one range.
ScanRange(spawnable, doc, range) ==
  IF TooLarge(doc, range) THEN <<>>
  ELSE ScanLines(spawnable, doc, startLine(range), endLine(doc, range))

RECURSIVE ScanRangesUntilTooLarge(_, _, _)
\* A loop over the ranges that ends at the first range that is too large.
ScanRangesUntilTooLarge(spawnable, doc, ranges) ==
  IF ranges = <<>> THEN <<>>
  ELSE IF TooLarge(doc, Head(ranges)) THEN <<>>
  ELSE ScanRange(spawnable, doc, Head(ranges))
       \o ScanRangesUntilTooLarge(spawnable, doc, Tail(ranges))

RECURSIVE ScanRanges(_, _, _)
\* The first half of demangleSymbolsInRanges: the mangledSymbols array.
ScanRanges(spawnable, doc, ranges) ==
  IF ranges = <<>> THEN <<>>
  ELSE ScanRange(spawnable, doc, Head(ranges))
       \o ScanRanges(spawnable, doc, Tail(ranges))

-----------------------------------------------------------------------------
(* The external tools, as the demanglers see them.                          *)

\* The commands that can be spawned on this machine (canSpawnSync).
Installed == {"c++filt", "/usr/bin/c++filt", "swift-demangle"}

canSpawnSync(command) == command \in Installed

\* The values the user may give demangler.<section>.toolPath.
ToolPathChoices(d) ==
  IF d = "c++" THEN {"c++filt", "no-such-tool"}
  ELSE {"swift-demangle", "no-such-tool"}

\* The same, with a second path to c++filt and a second path to nothing.
MoreToolPathChoices(d) ==
  ToolPathChoices(d) \cup (IF d = "c++" THEN {"/usr/bin/c++filt"} ELSE {"nowhere"})

\* The toolPath settings the user may arrive at.
ToolPathSettings ==
  {paths \in [Demanglers -> UNION {MoreToolPathChoices(d) : d \in Demanglers}] :
     \A d \in Demanglers : paths[d] \in MoreToolPathChoices(d)}

\* The defaults of the toolPath settings.
DefaultToolPath == [d \in Demanglers |-> IF d = "c++" THEN "c++filt" ELSE "swift-demangle"]

\* What an installed tool prints for an argument, trimmed and split in lines.
\* c++filt prints the symbol back when it cannot demangle it.
ToolOutput(d, arg) ==
  IF d = "c++"
    THEN (IF arg = "_Z1fv" THEN <<"f()">> ELSE <<arg>>)
    ELSE (IF arg \in {"$s1a", "_$s1a"}
            THEN <<"Demangling for " \o arg, "kind=Global", "a">>
            ELSE <<"Demangling for " \o arg, "<<NULL>>", "<<NULL>>">>)

\* The lines an output may end with that start with "<<NULL>>".
NullLines == {"<<NULL>>"}

\* spawnDemanglerSync(...).stdout.trim(): the lines printed, or a failure
\* when stdout is null.  On darwin the command spawned is xcrun, which
\* always starts and prints nothing to stdout when it cannot run the tool;
\* elsewhere a command that cannot be spawned leaves stdout null.
SpawnOutput(plat, d, path, arg) ==
  IF canSpawnSync(path) THEN [ok |-> TRUE, lines |-> ToolOutput(d, arg)]
  ELSE IF plat = "darwin" THEN [ok |-> TRUE, lines |-> <<"">>]
  ELSE [ok |-> FALSE]

Null == [null |-> TRUE]

Threw == [threw |-> TRUE]

\* CppDemangler.demangle.
CppDemangle(plat, path, symbol) ==
  LET Read(out) ==
        IF ~out.ok THEN Threw
        ELSE IF out.lines[1] = Str(symbol) THEN Null
        ELSE [demangled |-> out.lines[1], detailedText |-> <<>>]
  IN Read(SpawnOutput(plat, "c++", path, Str(symbol)))

\* The argument SwiftDemangler.demangle passes to the tool.
SwiftToolArgument(symbol) ==
  IF StartsWith(symbol, SwiftPrefixes[8])
    THEN <<"_", "$", "s">> \o SubSeq(symbol, 15, Len(symbol))
  ELSE IF StartsWith(symbol, <<"%", "T">>) \/ StartsWith(symbol, <<"s", ":">>)
    THEN <<"_", "$", "s">> \o SubSeq(symbol, 3, Len(symbol))
  ELSE symbol

\* SwiftDemangler.demangle.
SwiftDemangle(plat, path, symbol) ==
  LET Read(arg, out) ==
        IF ~out.ok THEN Threw
        ELSE IF out.lines[Len(out.lines)] \in NullLines THEN Null
        ELSE [demangled |-> out.lines[Len(out.lines)],
              detailedText |->
                << [symbol |-> arg,
                    code |-> SubSeq(out.lines, 2, Len(out.lines) - 1)] >>]
      Spawn(arg) == Read(arg, SpawnOutput(plat, "swift", path, arg))
  IN Spawn(Str(SwiftToolArgument(symbol)))

\* demangler.demangle(symbol) for demangler d whose tool path is `path`.
demangle(plat, d, path, symbol) ==
  IF d = "c++" THEN CppDemangle(plat, path, symbol)
  ELSE SwiftDemangle(plat, path, symbol)

-----------------------------------------------------------------------------
(* The state a handler works on.  A handler is a function from such a      *)
(* record to such a record; an action commits the record its handler       *)
(* leaves.  attempted, staleKeys and lookups are history.                  *)

\* No warning was answered.
NoAnswer == [value |-> "none"]

HandlerState ==
  [toolPathSetting |-> toolPathSetting,
   warnIfToolPathIsInvalid |-> warnIfToolPathIsInvalid,
   warningMessages |-> warningMessages, answered |-> NoAnswer,
   currentToolPath |-> currentToolPath, canSpawnTool |-> canSpawnTool,
   demangleCache |-> demangleCache, calls |-> calls,
   attempted |-> attempted, staleKeys |-> staleKeys,
   clearedCache |-> clearedCache, writtenBefore |-> writtenBefore,
   documents |-> documents,
   visibleRanges |-> visibleRanges, decorations |-> decorations,
   selections |-> selections, activeDemangledSymbol |-> activeDemangledSymbol,
   applied |-> applied, finished |-> finished, lookups |-> <<>>,
   reports |-> <<>>, notices |-> <<>>, copied |-> [did |-> "nothing"]]

\* A lookup that reads the entry of another key.
cachedResultOfAnyKey(cache, key) == cache[CHOOSE k \in DOMAIN cache : TRUE]

\* this.demangleCache.get(symbol.symbol), for a key the map holds.
cachedResult(cache, key) == cache[key]

\* `if (cachedResult)`: the map holds the key and the value is not null.
CacheHit(cache, key) == key \in DOMAIN cache /\ cachedResult(cache, key) # Null

\* A set that drops the other entries of the map.
MapSetAlone(map, key, value) == [k \in {key} |-> value]

\* Map.set(key, value).
MapSet(map, key, value) ==
  [k \in DOMAIN map \cup {key} |-> IF k = key THEN value ELSE map[k]]

\* A lookup that asks the demangler whether it is available and returns null
\* when it is not.
lookupSymbolIfAvailable(st, occ, caller) ==
  LET key == Str(occ.symbol)
      d == occ.demangler
      entry == [symbol |-> key, demangler |-> d, caller |-> caller,
                available |-> isAvailable(st.canSpawnTool, d),
                cached |-> IF key \notin DOMAIN st.demangleCache THEN "absent"
                           ELSE IF st.demangleCache[key] = Null THEN "negative"
                           ELSE "positive",
                stale |-> key \in st.staleKeys,
                old |-> key \in st.writtenBefore,
                again |-> key \in st.attempted]
      Demangled(k, e, r) ==
        IF r = Threw
          THEN [st |-> [st EXCEPT
                  !.attempted = @ \cup {k},
                  !.lookups = Append(@, e @@ [demangled |-> TRUE, stored |-> FALSE])],
                value |-> Threw]
          ELSE [st |-> [st EXCEPT
                  !.demangleCache = MapSet(@, k, r),
                  !.attempted = @ \cup {k},
                  !.staleKeys = @ \ {k},
                  !.writtenBefore = @ \ {k},
                  !.lookups = Append(@, e @@ [demangled |-> TRUE, stored |-> TRUE])],
                value |-> r]
  IN IF ~isAvailable(st.canSpawnTool, d)
       THEN [st |-> [st EXCEPT !.lookups =
                       Append(@, entry @@ [demangled |-> FALSE, stored |-> FALSE])],
             value |-> Null]
     ELSE IF CacheHit(st.demangleCache, key)
       THEN [st |-> [st EXCEPT !.lookups =
                       Append(@, entry @@ [demangled |-> FALSE, stored |-> FALSE])],
             value |-> cachedResult(st.demangleCache, key)]
       ELSE Demangled(key, entry,
                      demangle(platform, d, st.currentToolPath[d], occ.symbol))

\* A lookup that catches what demangle raises and caches null for the symbol.
lookupSymbolCatching(st, occ, caller) ==
  LET key == Str(occ.symbol)
      d == occ.demangler
      entry == [symbol |-> key, demangler |-> d, caller |-> caller,
                available |-> isAvailable(st.canSpawnTool, d),
                cached |-> IF key \notin DOMAIN st.demangleCache THEN "absent"
                           ELSE IF st.demangleCache[key] = Null THEN "negative"
                           ELSE "positive",
                stale |-> key \in st.staleKeys,
                old |-> key \in st.writtenBefore,
                again |-> key \in st.attempted]
      Demangled(k, e, r) ==
        IF r = Threw
          THEN [st |-> [st EXCEPT
                  !.demangleCache = MapSet(@, k, Null),
                  !.attempted = @ \cup {k},
                  !.lookups = Append(@, e @@ [demangled |-> TRUE, stored |-> FALSE])],
                value |-> Null]
          ELSE [st |-> [st EXCEPT
                  !.demangleCache = MapSet(@, k, r),
                  !.attempted = @ \cup {k},
                  !.staleKeys = @ \ {k},
                  !.writtenBefore = @ \ {k},
                  !.lookups = Append(@, e @@ [demangled |-> TRUE, stored |-> TRUE])],
                value |-> r]
  IN IF CacheHit(st.demangleCache, key)
       THEN [st |-> [st EXCEPT !.lookups =
                       Append(@, entry @@ [demangled |-> FALSE, stored |-> FALSE])],
             value |-> cachedResult(st.demangleCache, key)]
       ELSE Demangled(key, entry,
                      demangle(platform, d, st.currentToolPath[d], occ.symbol))

\* lookupSymbolInCacheOrDemangle: the handler state it leaves and the value
\* its promise settles with.  `caller` says which call made the lookup.
lookupSymbolInCacheOrDemangle(st, occ, caller) ==
  LET key == Str(occ.symbol)
      d == occ.demangler
      entry == [symbol |-> key, demangler |-> d, caller |-> caller,
                available |-> isAvailable(st.canSpawnTool, d),
                cached |-> IF key \notin DOMAIN st.demangleCache THEN "absent"
                           ELSE IF st.demangleCache[key] = Null THEN "negative"
                           ELSE "positive",
                stale |-> key \in st.staleKeys,
                old |-> key \in st.writtenBefore,
                again |-> key \in st.attempted]
      Demangled(k, e, r) ==
        IF r = Threw
          THEN [st |-> [st EXCEPT
                  !.attempted = @ \cup {k},
                  !.lookups = Append(@, e @@ [demangled |-> TRUE, stored |-> FALSE])],
                value |-> Threw]
          ELSE [st |-> [st EXCEPT
                  !.demangleCache = MapSet(@, k, r),
                  !.attempted = @ \cup {k},
                  !.staleKeys = @ \ {k},
                  !.writtenBefore = @ \ {k},
                  !.lookups = Append(@, e @@ [demangled |-> TRUE, stored |-> TRUE])],
                value |-> r]
  IN IF CacheHit(st.demangleCache, key)
       THEN [st |-> [st EXCEPT !.lookups =
                       Append(@, entry @@ [demangled |-> FALSE, stored |-> FALSE])],
             value |-> cachedResult(st.demangleCache, key)]
       ELSE Demangled(key, entry,
                      demangle(platform, d, st.currentToolPath[d], occ.symbol))

-----------------------------------------------------------------------------
(* demangleSymbolsInRanges, one action per stretch between two awaits.      *)

\* A call in flight.  mangledSymbols, index, awaited and results are the
\* call's locals; the other fields record what the call was given and saw
\* (scanned: what the loop body over the ranges added for each range), who
\* awaits it (consumer, with the copier's cursor position) and whether the
\* same consumer has started a newer run since (superseded).
NewCall(st, editor, doc, ranges) ==
  [editor |-> editor, ranges |-> ranges,
   document |-> doc, availableAtScan |-> st.canSpawnTool,
   warm |-> DOMAIN st.demangleCache # {}, quiet |-> TRUE,
   mangledSymbols |-> ScanRanges(st.canSpawnTool, doc, ranges),
   scanned |-> [j \in DOMAIN ranges |-> ScanRange(st.canSpawnTool, doc, ranges[j])],
   index |-> 0, awaited |-> Null, outcomes |-> <<>>, results |-> <<>>,
   state |-> "scanned", consumer |-> "none", position |-> Null,
   superseded |-> FALSE]

\* A range whose end forgets the column the symbol starts at.
ResultRangeFromLineStart(occ) ==
  Range(occ.position, Position(occ.position.line, Len(occ.symbol)))

\* The range of a result: from the position recorded by the scan to the same
\* position translated by the symbol's length.
ResultRange(occ) ==
  Range(occ.position,
        Position(occ.position.line, occ.position.character + Len(occ.symbol)))

\* The loop body after an await: the awaited value is dropped when null and
\* pushed on the results otherwise.
PushResult(call) ==
  LET occ == call.mangledSymbols[call.index]
  IN IF call.awaited = Null THEN call.results
     ELSE Append(call.results, [range |-> ResultRange(occ), result |-> call.awaited])

\* A results array that all the calls in flight share.
sharedResults(st, call) ==
  IF st.calls = <<>> THEN call.results ELSE st.calls[Len(st.calls)].results

\* `const results = []`: the results array is a local of the call.
localResults(st, call) == call.results

\* The call runs from where it stands to its next await or to its return:
\* the first step of a call (index 0) has nothing awaited yet.
RunCall(st, call, caller) ==
  LET own == [call EXCEPT !.results = localResults(st, call)]
      Run(results, outcomes, next) ==
        LET Await(l) ==
              [st |-> l.st,
               call |-> [call EXCEPT !.results = results, !.outcomes = outcomes,
                                     !.index = next, !.awaited = l.value,
                                     !.state = "awaiting"]]
        IN IF call.index > 0 /\ call.awaited = Threw
             THEN [st |-> st, call |-> [call EXCEPT !.state = "rejected"]]
           ELSE IF next > Len(call.mangledSymbols)
             THEN [st |-> st,
                   call |-> [call EXCEPT !.results = results, !.outcomes = outcomes,
                                         !.state = "returned"]]
           ELSE Await(lookupSymbolInCacheOrDemangle(st, call.mangledSymbols[next],
                                                    caller))
  IN Run(IF call.index = 0 THEN own.results ELSE PushResult(own),
         IF call.index = 0 THEN call.outcomes ELSE Append(call.outcomes, call.awaited),
         call.index + 1)

\* The synchronous part of demangleSymbolsInRanges(document, ranges): the
\* scan and the first lookup.  The call then waits in st.calls.
demangleSymbolsInRanges(st, editor, doc, ranges, origin) ==
  LET Queue(r) == [r.st EXCEPT !.calls = Append(@, r.call)]
  IN Queue(RunCall(st, NewCall(st, editor, doc, ranges), origin))

\* The call just started is awaited by `consumer`; the runs the same
\* consumer started before for the same target are superseded.
Awaited(st, consumer, position) ==
  LET n == Len(st.calls)
      new == st.calls[n]
  IN [st EXCEPT !.calls =
        [i \in 1..n |->
           IF i = n THEN [new EXCEPT !.consumer = consumer, !.position = position]
           ELSE IF /\ st.calls[i].consumer = consumer
                   /\ (consumer = "copier" \/ st.calls[i].editor = new.editor)
             THEN [st.calls[i] EXCEPT !.superseded = TRUE]
           ELSE st.calls[i]]]

\* DemanglingDecorator.decorateSymbolsInRanges up to its await.
decorateSymbolsInRanges(st, editor, ranges, origin) ==
  Awaited(demangleSymbolsInRanges(st, editor, st.documents[editor], ranges, origin),
          "decorator", Null)

\* A selection is a pair of positions; it is empty when they are equal.
Selection(anchor, active) == [anchor |-> anchor, active |-> active]

isEmpty(selection) == selection.anchor = selection.active

\* document.lineAt(position).range.
LineRange(doc, position) ==
  Range(Position(position.line, 0),
        Position(position.line, LineLength(doc[position.line + 1])))

\* An updateLine that takes the first selection's active position whatever
\* the selections are.
updateLineOfAnySelection(st, editor, origin) ==
  LET sels == st.selections[editor]
  IN Awaited(demangleSymbolsInRanges(
               st, editor, st.documents[editor],
               << LineRange(st.documents[editor], sels[1].active) >>, origin),
             "copier", sels[1].active)

\* DemanglingCopier.updateLine up to its await: nothing is done unless there
\* is exactly one selection and it is empty.
updateLine(st, editor, origin) ==
  LET sels == st.selections[editor]
  IN IF Len(sels) # 1 THEN st
     ELSE IF ~isEmpty(sels[1]) THEN st
     ELSE Awaited(demangleSymbolsInRanges(
                    st, editor, st.documents[editor],
                    << LineRange(st.documents[editor], sels[1].active) >>, origin),
                  "copier", sels[1].active)

\* range.contains(position): both ends of the range are inside.
contains(range, position) ==
  /\ range.start.line <= position.line
  /\ position.line <= range.end.line
  /\ (position.line = range.start.line => range.start.character <= position.character)
  /\ (position.line = range.end.line => position.character <= range.end.character)

Undefined == [undefined |-> TRUE]

RECURSIVE find(_, _)
\* activeLineSymbols.find(...): the first result whose range contains the
\* position, or undefined.
find(results, position) ==
  IF results = <<>> THEN Undefined
  ELSE IF contains(Head(results).range, position) THEN Head(results)
  ELSE find(Tail(results), position)

\* DemanglingCopier.copyDemangledSymbol: a warning is shown when there is
\* no active symbol, and its demangled text written to the clipboard
\* otherwise.
copyDemangledSymbol(st) ==
  IF st.activeDemangledSymbol = Undefined
    THEN [st EXCEPT !.copied = [did |-> "showWarningMessage"]]
    ELSE [st EXCEPT !.copied = [did |-> "writeText",
                                text |-> st.activeDemangledSymbol.result.demangled]]

\* The decoration options decorateSymbolsInRanges makes of the results.
DecorationOptions(results) ==
  [i \in 1..Len(results) |->
     [hoverMessage |-> results[i].result.detailedText,
      range |-> results[i].range,
      renderOptions |->
        [after |-> [contentText |-> "«" \o results[i].result.demangled \o "»"]]]]

RECURSIVE decorateEditors(_, _, _)
\* The loop of decorateVisibleEditors over the editors still to visit.
decorateEditors(st, editors, origin) ==
  IF editors = <<>> THEN st
  ELSE decorateEditors(
         decorateSymbolsInRanges(st, Head(editors), st.visibleRanges[Head(editors)],
                                 origin),
         Tail(editors), origin)

\* DemanglingDecorator.decorateVisibleEditors.
decorateVisibleEditors(st, origin) == decorateEditors(st, visibleTextEditors, origin)

-----------------------------------------------------------------------------
(* Path settings and invalidation.                                          *)

\* A configuration change event: the settings sections it affects.
NoEvent == [none |-> TRUE]

ConfigurationChangeEvent(sections) == [affects |-> sections]

\* An event taken to affect every section.
affectsAnyConfiguration(event, d) == TRUE

\* event.affectsConfiguration(this.section).
affectsConfiguration(event, d) == d \in event.affects

\* What is remembered of one updateAvailability call: the demangler, whether
\* it ran for an event and whether the event names its section, whether the
\* toolPath setting was read and the tool probed, what was returned, and
\* the path and the flag before and after.
Report(st, d, event, u) ==
  [demangler |-> d, onEvent |-> event # NoEvent,
   affected |-> event # NoEvent /\ d \in event.affects,
   read |-> u.read, probed |-> u.probed, warned |-> u.warned, changed |-> u.changed,
   pathBefore |-> st.currentToolPath[d], pathAfter |-> u.st.currentToolPath[d],
   availableBefore |-> st.canSpawnTool[d], availableAfter |-> u.st.canSpawnTool[d]]

\* The `if` after the probe: the warning is shown when the tool cannot be
\* spawned and the section's warnIfToolPathIsInvalid is set.
showWarningIfInvalid(st, d) ==
  IF ~st.canSpawnTool[d] /\ st.warnIfToolPathIsInvalid[d]
    THEN [st EXCEPT !.warningMessages[d] = @ + 1]
    ELSE st

\* An updateAvailability that returns whether the flag has changed.
updateAvailabilityByFlag(st, d, event) ==
  LET u == IF event # NoEvent /\ ~affectsConfiguration(event, d)
             THEN [st |-> st, changed |-> FALSE, read |-> FALSE, probed |-> FALSE,
                   warned |-> FALSE]
           ELSE LET path == st.toolPathSetting[d]
                IN IF st.currentToolPath[d] = path
                     THEN [st |-> st, changed |-> FALSE, read |-> TRUE,
                           probed |-> FALSE, warned |-> FALSE]
                     ELSE [st |-> showWarningIfInvalid(
                                    [st EXCEPT !.currentToolPath[d] = path,
                                               !.canSpawnTool[d] = canSpawnSync(path)],
                                    d),
                           changed |-> st.canSpawnTool[d] # canSpawnSync(path),
                           read |-> TRUE, probed |-> TRUE,
                           warned |-> ~canSpawnSync(path)
                                        /\ st.warnIfToolPathIsInvalid[d]]
  IN [st |-> [u.st EXCEPT !.reports = Append(@, Report(st, d, event, u))],
      changed |-> u.changed]

\* An updateAvailability that probes the path whether or not it has changed.
updateAvailabilityWithoutPathCheck(st, d, event) ==
  LET u == IF event # NoEvent /\ ~affectsConfiguration(event, d)
             THEN [st |-> st, changed |-> FALSE, read |-> FALSE, probed |-> FALSE,
                   warned |-> FALSE]
           ELSE LET path == st.toolPathSetting[d]
                IN [st |-> showWarningIfInvalid(
                             [st EXCEPT !.currentToolPath[d] = path,
                                        !.canSpawnTool[d] = canSpawnSync(path)],
                             d),
                    changed |-> TRUE, read |-> TRUE, probed |-> TRUE,
                    warned |-> ~canSpawnSync(path)
                                 /\ st.warnIfToolPathIsInvalid[d]]
  IN [st |-> [u.st EXCEPT !.reports = Append(@, Report(st, d, event, u))],
      changed |-> u.changed]

\* DemanglerPathSettings.updateAvailability(event) of demangler d: the
\* handler state it leaves and the value it returns.
updateAvailability(st, d, event) ==
  LET u == IF event # NoEvent /\ ~affectsConfiguration(event, d)
             THEN [st |-> st, changed |-> FALSE, read |-> FALSE, probed |-> FALSE,
                   warned |-> FALSE]
           ELSE LET path == st.toolPathSetting[d]
                IN IF st.currentToolPath[d] = path
                     THEN [st |-> st, changed |-> FALSE, read |-> TRUE,
                           probed |-> FALSE, warned |-> FALSE]
                     ELSE [st |-> showWarningIfInvalid(
                                    [st EXCEPT !.currentToolPath[d] = path,
                                               !.canSpawnTool[d] = canSpawnSync(path)],
                                    d),
                           changed |-> TRUE, read |-> TRUE, probed |-> TRUE,
                           warned |-> ~canSpawnSync(path)
                                        /\ st.warnIfToolPathIsInvalid[d]]
  IN [st |-> [u.st EXCEPT !.reports = Append(@, Report(st, d, event, u))],
      changed |-> u.changed]

RECURSIVE updateDemanglersUntilChanged(_, _, _)
\* A loop that stops at the first demangler that reports a change.
updateDemanglersUntilChanged(st, event, i) ==
  IF i > Len(demanglers) THEN [st |-> st, didAnyInvalidate |-> FALSE]
  ELSE LET u == updateAvailability(st, demanglers[i], event)
       IN IF u.changed THEN [st |-> u.st, didAnyInvalidate |-> TRUE]
          ELSE updateDemanglersUntilChanged(u.st, event, i + 1)

RECURSIVE updateDemanglers(_, _, _)
\* The loop of onDidChangeConfiguration (or of activate) over the demanglers
\* from the i-th on: the state left and whether any reported a change.
updateDemanglers(st, event, i) ==
  IF i > Len(demanglers) THEN [st |-> st, didAnyInvalidate |-> FALSE]
  ELSE LET u == updateAvailability(st, demanglers[i], event)
           rest == updateDemanglers(u.st, event, i + 1)
       IN [st |-> rest.st,
           didAnyInvalidate |-> u.changed \/ rest.didAnyInvalidate]

\* History kept at the moment an invalidation is decided.
MarkStale(st) ==
  [st EXCEPT !.staleKeys = DOMAIN st.demangleCache,
             !.clearedCache = st.demangleCache,
             !.writtenBefore = DOMAIN st.demangleCache]

\* A clear that leaves the cache as it is.
clearNothing(st) ==
  [st EXCEPT !.attempted = {}, !.staleKeys = {}, !.notices = Append(@, "clear")]

\* A clear that drops the negative entries and keeps the others.
clearNegatives(st) ==
  [st EXCEPT !.demangleCache =
               [k \in {j \in DOMAIN @ : @[j] # Null} |-> @[k]],
             !.attempted = {}, !.staleKeys = {}, !.notices = Append(@, "clear")]

\* this.demangleCache.clear().
clear(st) ==
  [st EXCEPT !.demangleCache = <<>>, !.attempted = {}, !.staleKeys = {},
             !.notices = Append(@, "clear")]

\* this.onDidInvalidateEmitter.fire(): the decorator's listener, once the
\* decorator has subscribed.
fire(st) ==
  LET fired == [st EXCEPT !.notices = Append(@, "fire")]
  IN IF phase = "active" THEN decorateVisibleEditors(fired, "invalidate") ELSE fired

\* An invalidation that notifies before it clears.
InvalidateNotifyFirst(st) == clear(fire(MarkStale(st)))

\* The body of `if (didAnyInvalidate)`.
Invalidate(st) == fire(clear(MarkStale(st)))

\* DemanglerCore.onDidChangeConfiguration.
onDidChangeConfiguration(st, event) ==
  LET Decide(u) == IF u.didAnyInvalidate THEN Invalidate(u.st) ELSE u.st
  IN Decide(updateDemanglers(st, event, 1))

-----------------------------------------------------------------------------
(* The documents and ranges the editors are given.                          *)

Editors == {1, 2}

NoEditor == 0

\* A line of MaxRangeSpan characters: a symbol and blanks.
LongLine == Line(<<"_", "Z", "1", "f", "v">>, MaxRangeSpan - 5)

DocSymbols ==
  << Line(<<"_", "Z", "9", "x", " ", "$", "s", "1", "a", " ",
            "_", "Z", "9", "x">>, 0),
     Line(<<"x">>, 0),
     Line(<<"_", "Z", "1", "f", "v">>, 0) >>

DocLong == << LongLine, Line(<<"$", "s", "1", "a">>, 0) >>

DocumentChoices == {DocSymbols, DocLong}

\* The lists of ranges an editor may show or an event may carry.
RangeChoices ==
  { << Range(Position(0, 0), Position(0, MaxRangeSpan)) >>,
    << Range(Position(0, 0), Position(1, 0)) >>,
    << Range(Position(0, 0), Position(1, 0)),
       Range(Position(1, 0), Position(1, 4)) >> }

-----------------------------------------------------------------------------
(* The lines the scan loops are run on, one step at a time.                 *)

\* The lines of one line tried are those of at most this many characters.
MaxLineLength == 3

\* Characters the two patterns begin with and go on with.
ScanAlphabet == {"_", "Z", "1", "$", "s"}

RECURSIVE TextsOfLength(_)
TextsOfLength(n) ==
  IF n = 0 THEN {<<>>}
  ELSE {Append(t, c) : t \in TextsOfLength(n - 1), c \in ScanAlphabet}

\* The documents scanned: every short line by itself, lines with several
\* matches of one pattern, and the documents the editors show.
ScanDocuments ==
  {<<Line(t, 0)>> : t \in UNION {TextsOfLength(n) : n \in 0..MaxLineLength}}
    \cup {DocSymbols, DocLong,
          << Line(<<"_", "Z", "1", "s", " ", "_", "_", "Z", "N", "1", "s">>, 0),
             Line(<<"$", "s", "1", " ", "_", "T", "1", " ", "$", "S", "1">>, 0),
             Line(<<"x", "_", "Z", "1", "s">>, 0) >>}

\* No scan is running; a new RegExp has lastIndex 0.
NoScan ==
  [pc |-> "idle", document |-> <<>>, spawnable |-> [d \in Demanglers |-> FALSE],
   line |-> 0, demangler |-> 1, lastIndex |-> [d \in Demanglers |-> 0],
   execs |-> 0, lineSymbols |-> <<>>, mangledSymbols |-> <<>>, index |-> 0]

-----------------------------------------------------------------------------
(* Timers (setTimeout, clearTimeout) and the bounds of a run.               *)

\* The delay of the visible-ranges timer, in milliseconds.
DebounceDelay == 100

\* The amounts of time a step may let pass.
TimeSteps == {50}

\* At most this many events come from the editor and the settings in a run.
MaxEvents == 2

\* At most this many timers are pending at once.
MaxTimers == 2

NoTimer == 0

TimerIds == 1..MaxTimers

\* setTimeout: a handle that is not in use.
FreshTimer(ts) == CHOOSE id \in TimerIds \ DOMAIN ts : \A j \in TimerIds \ DOMAIN ts : id <= j

clearTimeout(ts, id) == [j \in DOMAIN ts \ {id} |-> ts[j]]

NoBurst == [len |-> 0, fired |-> 0, since |-> 0, last |-> <<>>, firedWith |-> <<>>]

-----------------------------------------------------------------------------
(* Actions.                                                                 *)

\* The part of the state a handler leaves.
Commit(st) ==
  /\ toolPathSetting' = st.toolPathSetting
  /\ warnIfToolPathIsInvalid' = st.warnIfToolPathIsInvalid
  /\ warningMessages' = st.warningMessages
  /\ answered' = st.answered
  /\ currentToolPath' = st.currentToolPath
  /\ canSpawnTool' = st.canSpawnTool
  /\ demangleCache' = st.demangleCache
  /\ documents' = st.documents
  /\ visibleRanges' = st.visibleRanges
  /\ decorations' = st.decorations
  /\ selections' = st.selections
  /\ activeDemangledSymbol' = st.activeDemangledSymbol
  /\ applied' = st.applied
  /\ calls' = st.calls
  /\ lookups' = st.lookups
  /\ reports' = st.reports
  /\ notices' = st.notices
  /\ copied' = st.copied
  /\ attempted' = st.attempted
  /\ staleKeys' = st.staleKeys
  /\ clearedCache' = st.clearedCache
  /\ writtenBefore' = st.writtenBefore
  /\ finished' = st.finished

\* An edit or a configuration change ends the quiet period of the calls in
\* flight and of those that have returned.
Disturb(st) ==
  [st EXCEPT !.finished = {},
             !.calls = [i \in 1..Len(@) |-> [@[i] EXCEPT !.quiet = FALSE]]]

Init ==
  /\ platform \in {"darwin", "linux"}
  /\ phase = "constructed"
  /\ toolPathSetting = DefaultToolPath
  /\ warnIfToolPathIsInvalid = [d \in Demanglers |-> TRUE]
  /\ warningMessages = [d \in Demanglers |-> 0]
  /\ answered = NoAnswer
  /\ currentToolPath = [d \in Demanglers |-> ""]
  /\ canSpawnTool = [d \in Demanglers |-> FALSE]
  /\ demangleCache = <<>>
  /\ visibleTextEditors \in {<<1>>, <<1, 2>>}
  /\ activeTextEditor \in {NoEditor, 1}
  /\ documents \in [Editors -> DocumentChoices]
  /\ documents[2] = DocSymbols
  /\ visibleRanges \in [Editors -> RangeChoices]
  /\ visibleRanges[2] = visibleRanges[1]
  /\ decorations = [e \in Editors |-> <<>>]
  /\ selections = [e \in Editors |-> << Selection(Position(0, 5), Position(0, 5)) >>]
  /\ activeDemangledSymbol = Undefined
  /\ applied = [decorations |-> [e \in Editors |-> "none"], activeSymbol |-> "none"]
  /\ timers = <<>>
  /\ changeVisibleRangesTimer = NoTimer
  /\ calls = <<>>
  /\ draining = FALSE
  /\ lookups = <<>>
  /\ reports = <<>>
  /\ notices = <<>>
  /\ copied = [did |-> "nothing"]
  /\ attempted = {}
  /\ staleKeys = {}
  /\ clearedCache = <<>>
  /\ writtenBefore = {}
  /\ finished = {}
  /\ burst = NoBurst
  /\ events = 0
  /\ scanner = NoScan

\* An activate() of the core that registers its listener and leaves the
\* demanglers as they are.
ActivateCoreListenerOnly ==
  /\ phase = "constructed"
  /\ phase' = "core"
  /\ draining' = TRUE
  /\ Commit(HandlerState)
  /\ UNCHANGED <<scanner, platform, events, visibleTextEditors, activeTextEditor, timers,
                 changeVisibleRangesTimer, burst>>

\* The extension's activate() begins: DemanglerCore.activate, where every
\* demangler probes its tool.  No event is taken until activate() is through.
ActivateCore ==
  /\ phase = "constructed"
  /\ phase' = "core"
  /\ draining' = TRUE
  /\ Commit(updateDemanglers(HandlerState, NoEvent, 1).st)
  /\ UNCHANGED <<scanner, platform, events, visibleTextEditors, activeTextEditor, timers,
                 changeVisibleRangesTimer, burst>>

\* DemanglingCopier.activate up to its await: the listeners are registered
\* and the line of the active editor's cursor, if any, is looked at.
ActivateCopier ==
  /\ phase = "core"
  /\ phase' = "copier"
  /\ Commit(IF activeTextEditor # NoEditor
              THEN updateLine(HandlerState, activeTextEditor, "copier")
              ELSE HandlerState)
  /\ UNCHANGED <<scanner, platform, draining, events, visibleTextEditors, activeTextEditor,
                 timers, changeVisibleRangesTimer, burst>>

\* DemanglingDecorator.activate, once the copier's activate() has settled:
\* the listeners are registered and the visible editors decorated.
ActivateDecorator ==
  /\ phase = "copier"
  /\ calls = <<>>
  /\ phase' = "active"
  /\ Commit(decorateVisibleEditors(HandlerState, "activate"))
  /\ draining' = (calls' # <<>>)
  /\ UNCHANGED <<scanner, platform, events, visibleTextEditors, activeTextEditor, timers,
                 changeVisibleRangesTimer, burst>>

\* The user's settings change so that the toolPath settings are `paths`: one
\* event that affects the sections whose setting differs; the listener
\* registered by DemanglerCore.activate runs.
ChangeToolPaths(paths) ==
  /\ phase \in {"core", "copier", "active"}
  /\ ~draining
  /\ events < MaxEvents
  /\ events' = events + 1
  /\ paths # toolPathSetting
  /\ Commit(onDidChangeConfiguration(
              Disturb([HandlerState EXCEPT !.toolPathSetting = paths]),
              ConfigurationChangeEvent(
                {d \in Demanglers : paths[d] # toolPathSetting[d]})))
  /\ UNCHANGED <<scanner, platform, draining, phase, visibleTextEditors, activeTextEditor, timers,
                 changeVisibleRangesTimer, burst>>

\* The user sets demangler.<d>.toolPath to path.
ChangeToolPath(d, path) == ChangeToolPaths([toolPathSetting EXCEPT ![d] = path])

\* The user switches demangler.<d>.warnIfToolPathIsInvalid, the other setting
\* of the section, which leaves the tool path as it is.
ChangeSectionSetting(d) ==
  /\ phase \in {"core", "copier", "active"}
  /\ ~draining
  /\ events < MaxEvents
  /\ events' = events + 1
  /\ Commit(onDidChangeConfiguration(
              Disturb([HandlerState EXCEPT !.warnIfToolPathIsInvalid[d] = ~@]),
              ConfigurationChangeEvent({d})))
  /\ UNCHANGED <<scanner, platform, draining, phase, visibleTextEditors, activeTextEditor, timers,
                 changeVisibleRangesTimer, burst>>

\* A setting of another extension changes; the same listener runs.
ChangeOtherSetting ==
  /\ phase \in {"core", "copier", "active"}
  /\ ~draining
  /\ events < MaxEvents
  /\ events' = events + 1
  /\ Commit(onDidChangeConfiguration(Disturb(HandlerState),
                                     ConfigurationChangeEvent({})))
  /\ UNCHANGED <<scanner, platform, draining, phase, visibleTextEditors, activeTextEditor, timers,
                 changeVisibleRangesTimer, burst>>

\* The items of the warning, and no item for a warning that is dismissed.
WarningItems == {"Open in Settings", "Don't Show Again"}
WarningAnswers == WarningItems \cup {"undefined"}

\* config.update("warnIfToolPathIsInvalid", false): the setting is written, and
\* a write that changes it is a configuration change of the section.
updateWarnIfToolPathIsInvalid(st, d) ==
  IF st.warnIfToolPathIsInvalid[d]
    THEN onDidChangeConfiguration(
           Disturb([st EXCEPT !.warnIfToolPathIsInvalid[d] = FALSE]),
           ConfigurationChangeEvent({d}))
    ELSE st

\* The `.then` of showWarningMessage: the switch on the item chosen.  The case
\* "Open in Settings" runs workbench.action.openSettings and, having no break,
\* goes on into the case "Don't Show Again".
answer(st, d, value) ==
  LET log == [value |-> value, demangler |-> d,
              openedSettings |-> value = "Open in Settings",
              warnBefore |-> st.warnIfToolPathIsInvalid[d]]
      s1 == [st EXCEPT !.answered = log]
  IN IF value \in {"Open in Settings", "Don't Show Again"}
       THEN updateWarnIfToolPathIsInvalid(s1, d)
       ELSE s1

\* The user answers a warning of demangler d, or dismisses it.
AnswerWarning(d, value) ==
  /\ phase \in {"core", "copier", "active"}
  /\ ~draining
  /\ warningMessages[d] > 0
  /\ Commit(answer([HandlerState EXCEPT !.warningMessages[d] = @ - 1], d, value))
  /\ UNCHANGED <<scanner, platform, draining, phase, visibleTextEditors, activeTextEditor, timers,
                 changeVisibleRangesTimer, burst, events>>

\* A handler that sets a new timer and leaves the pending one running.
debounceWithoutClear(ts, handle, e, ranges) ==
  LET id == FreshTimer(ts)
  IN [timers |-> MapSet(ts, id, [textEditor |-> e, visibleRanges |-> ranges,
                                 remaining |-> DebounceDelay]),
      changeVisibleRangesTimer |-> id]

\* The body of the onDidChangeTextEditorVisibleRanges handler: the pending
\* timer, if any, is cleared and a new one set for the event.  The timers
\* and the timer handle it leaves.
debounce(ts, handle, e, ranges) ==
  LET pending == IF handle # NoTimer THEN clearTimeout(ts, handle) ELSE ts
      id == FreshTimer(pending)
  IN [timers |-> MapSet(pending, id, [textEditor |-> e, visibleRanges |-> ranges,
                                      remaining |-> DebounceDelay]),
      changeVisibleRangesTimer |-> id]

\* onDidChangeTextEditorVisibleRanges.  A timer that is due runs before the
\* next event is taken.  An event that comes less than DebounceDelay after
\* the previous one continues its burst.
VisibleRangesChange(e, ranges) ==
  /\ phase = "active"
  /\ ~draining
  /\ events < MaxEvents
  /\ events' = events + 1
  /\ \A id \in DOMAIN timers : timers[id].remaining > 0
  /\ Cardinality(DOMAIN timers) < MaxTimers
  /\ LET d == debounce(timers, changeVisibleRangesTimer, e, ranges)
     IN /\ timers' = d.timers
        /\ changeVisibleRangesTimer' = d.changeVisibleRangesTimer
  /\ burst' = IF burst.len = 0 \/ burst.since >= DebounceDelay
                THEN [len |-> 1, fired |-> 0, since |-> 0,
                      last |-> <<e, ranges>>, firedWith |-> <<>>]
                ELSE [burst EXCEPT !.len = @ + 1, !.since = 0,
                                   !.last = <<e, ranges>>]
  /\ Commit([HandlerState EXCEPT !.visibleRanges[e] = ranges])
  /\ UNCHANGED <<scanner, platform, draining, phase, visibleTextEditors, activeTextEditor>>

\* Time passes, no further than the first pending timer allows.
Elapse(t) ==
  /\ calls = <<>>
  /\ DOMAIN timers # {}
  /\ \A id \in DOMAIN timers : timers[id].remaining >= t
  /\ timers' = [id \in DOMAIN timers |-> [timers[id] EXCEPT !.remaining = @ - t]]
  /\ burst' = [burst EXCEPT !.since = Min(@ + t, DebounceDelay)]
  /\ Commit(HandlerState)
  /\ UNCHANGED <<scanner, platform, draining, events, phase, visibleTextEditors, activeTextEditor,
                 changeVisibleRangesTimer>>

\* A callback that leaves the handle as it is.
TimerFireKeepsHandle(id) ==
  /\ calls = <<>>
  /\ id \in DOMAIN timers
  /\ timers[id].remaining = 0
  /\ timers' = clearTimeout(timers, id)
  /\ LET Called(st, call) ==
           /\ Commit(st)
           /\ burst' = [burst EXCEPT !.fired = Min(@ + 1, 2),
                                     !.firedWith = <<call.editor, call.ranges>>]
         Decorated(st) == Called(st, st.calls[Len(st.calls)])
     IN Decorated(decorateSymbolsInRanges(HandlerState, timers[id].textEditor,
                                          timers[id].visibleRanges, "timer"))
  /\ draining' = (calls' # <<>>)
  /\ UNCHANGED <<scanner, platform, events, phase, visibleTextEditors, activeTextEditor,
                 changeVisibleRangesTimer>>

\* The callback given to setTimeout: the handle is forgotten and the ranges
\* of the timer's event are decorated.
TimerFire(id) ==
  /\ calls = <<>>
  /\ id \in DOMAIN timers
  /\ timers[id].remaining = 0
  /\ timers' = clearTimeout(timers, id)
  /\ changeVisibleRangesTimer' = NoTimer
  /\ LET Called(st, call) ==
           /\ Commit(st)
           /\ burst' = [burst EXCEPT !.fired = Min(@ + 1, 2),
                                     !.firedWith = <<call.editor, call.ranges>>]
         Decorated(st) == Called(st, st.calls[Len(st.calls)])
     IN Decorated(decorateSymbolsInRanges(HandlerState, timers[id].textEditor,
                                          timers[id].visibleRanges, "timer"))
  /\ draining' = (calls' # <<>>)
  /\ UNCHANGED <<scanner, platform, events, phase, visibleTextEditors, activeTextEditor>>

\* The copier's onDidChangeActiveTextEditor listener.
copierOnDidChangeActiveTextEditor(st, editor) ==
  IF editor # NoEditor THEN updateLine(st, editor, "copier") ELSE st

\* The decorator's onDidChangeActiveTextEditor listener.
onDidChangeActiveTextEditor(st, editor) ==
  IF editor # NoEditor
    THEN decorateSymbolsInRanges(st, editor, st.visibleRanges[editor], "active")
    ELSE st

\* The active editor changes: the copier's listener runs, then the
\* decorator's.
ActiveTextEditorChange(e) ==
  /\ phase = "active"
  /\ ~draining
  /\ events < MaxEvents
  /\ events' = events + 1
  /\ e # activeTextEditor
  /\ activeTextEditor' = e
  /\ Commit(onDidChangeActiveTextEditor(
              copierOnDidChangeActiveTextEditor(HandlerState, e), e))
  /\ UNCHANGED <<scanner, platform, draining, phase, visibleTextEditors, timers,
                 changeVisibleRangesTimer, burst>>

\* The decorator's onDidChangeTextDocument listener, for an edit of editor
\* e's document while `active` is the active editor.
onDidChangeTextDocument(st, active, e) ==
  IF active = NoEditor \/ active # e THEN st
  ELSE decorateSymbolsInRanges(st, active, st.visibleRanges[active], "edit")

\* An edit that is debounced as a change of the visible ranges is.
TextDocumentChangeDebounced(e, doc) ==
  /\ phase = "active"
  /\ doc # documents[e]
  /\ ~draining
  /\ events < MaxEvents
  /\ events' = events + 1
  /\ Cardinality(DOMAIN timers) < MaxTimers
  /\ LET d == debounce(timers, changeVisibleRangesTimer, e, visibleRanges[e])
     IN /\ timers' = d.timers
        /\ changeVisibleRangesTimer' = d.changeVisibleRangesTimer
  /\ Commit(Disturb([HandlerState EXCEPT !.documents[e] = doc]))
  /\ UNCHANGED <<scanner, platform, draining, phase, visibleTextEditors, activeTextEditor, burst>>

\* The document of editor e is edited.
TextDocumentChange(e, doc) ==
  /\ phase = "active"
  /\ doc # documents[e]
  /\ ~draining
  /\ events < MaxEvents
  /\ events' = events + 1
  /\ Commit(onDidChangeTextDocument(
              Disturb([HandlerState EXCEPT !.documents[e] = doc]),
              activeTextEditor, e))
  /\ UNCHANGED <<scanner, platform, draining, phase, visibleTextEditors, activeTextEditor, timers,
                 changeVisibleRangesTimer, burst>>

\* onDidChangeTextEditorSelection, of the copier: the selections of editor e
\* change.
SelectionChange(e, sels) ==
  /\ phase = "active"
  /\ sels # selections[e]
  /\ ~draining
  /\ events < MaxEvents
  /\ events' = events + 1
  /\ Commit(updateLine([HandlerState EXCEPT !.selections[e] = sels], e, "copier"))
  /\ UNCHANGED <<scanner, platform, draining, phase, visibleTextEditors, activeTextEditor, timers,
                 changeVisibleRangesTimer, burst>>

\* The user runs demangler.copyDemangledSymbol, a text editor command: it
\* runs when there is an active editor.
CopyDemangledSymbol ==
  /\ phase = "active"
  /\ ~draining
  /\ activeTextEditor # NoEditor
  /\ Commit(copyDemangledSymbol(HandlerState))
  /\ UNCHANGED <<scanner, platform, draining, events, phase, visibleTextEditors,
                 activeTextEditor, timers, changeVisibleRangesTimer, burst>>

\* The call at the head of the queue resumes after its await and goes to
\* the back of the queue.  A rejected call is dropped: nothing handles the
\* rejection.
ResumeCall ==
  /\ calls # <<>>
  /\ Head(calls).state = "awaiting"
  /\ LET r == RunCall(HandlerState, Head(calls), "resume")
     IN Commit([r.st EXCEPT !.calls =
                  IF r.call.state = "rejected" THEN Tail(@)
                  ELSE Append(Tail(@), r.call)])
  /\ draining' = (calls' # <<>> \/ phase # "active")
  /\ UNCHANGED <<scanner, platform, events, phase, visibleTextEditors, activeTextEditor,
                 timers, changeVisibleRangesTimer, burst>>

\* What is remembered of a call that returned.
Finished(call) ==
  [document |-> call.document, ranges |-> call.ranges, warm |-> call.warm,
   results |-> call.results]

\* decorateSymbolsInRanges after its await: the results of the call at the
\* head of the queue, which has returned, are given to editor.setDecorations.
SetDecorations ==
  /\ calls # <<>>
  /\ Head(calls).state = "returned"
  /\ Head(calls).consumer = "decorator"
  /\ Commit([HandlerState EXCEPT
       !.decorations[Head(calls).editor] = DecorationOptions(Head(calls).results),
       !.applied.decorations[Head(calls).editor] =
          IF Head(calls).superseded THEN "stale" ELSE "latest",
       !.finished = IF Head(calls).quiet THEN @ \cup {Finished(Head(calls))} ELSE @,
       !.calls = Tail(@)])
  /\ draining' = (calls' # <<>> \/ phase # "active")
  /\ UNCHANGED <<scanner, platform, events, phase, visibleTextEditors, activeTextEditor,
                 timers, changeVisibleRangesTimer, burst>>

\* updateLine after its await: the active symbol becomes the first result of
\* the call at the head of the queue whose range contains the cursor.
SetActiveSymbol ==
  /\ calls # <<>>
  /\ Head(calls).state = "returned"
  /\ Head(calls).consumer = "copier"
  /\ Commit([HandlerState EXCEPT
       !.activeDemangledSymbol = find(Head(calls).results, Head(calls).position),
       !.applied.activeSymbol = IF Head(calls).superseded THEN "stale" ELSE "latest",
       !.finished = IF Head(calls).quiet THEN @ \cup {Finished(Head(calls))} ELSE @,
       !.calls = Tail(@)])
  /\ draining' = (calls' # <<>> \/ phase # "active")
  /\ UNCHANGED <<scanner, platform, events, phase, visibleTextEditors, activeTextEditor,
                 timers, changeVisibleRangesTimer, burst>>

\* The steps of the calls in flight.  The extension's activate() resumes in
\* the same drain as the call its await waits for.
CallStep ==
  \/ ResumeCall
  \/ SetDecorations
  \/ SetActiveSymbol

\* The cursors and selections an editor may be given.
SelectionChoices ==
  { << Selection(Position(0, 5), Position(0, 5)) >>,
    << Selection(Position(0, 0), Position(0, 0)) >>,
    << Selection(Position(0, 0), Position(0, 5)) >>,
    << Selection(Position(0, 0), Position(0, 0)),
       Selection(Position(0, 5), Position(0, 5)) >> }

\* The extension with scrolling left out: activation, configuration
\* changes, edits, changes of the active editor and of the selections, the
\* copy command, and the calls they start.
Next ==
  \/ ActivateCore
  \/ ActivateCopier
  \/ ActivateDecorator
  \/ \E sels \in SelectionChoices : SelectionChange(1, sels)
  \/ \E d \in Demanglers : \E path \in ToolPathChoices(d) : ChangeToolPath(d, path)
  \/ ChangeOtherSetting
  \/ \E e \in {NoEditor, 1} : ActiveTextEditorChange(e)
  \/ \E doc \in DocumentChoices : TextDocumentChange(1, doc)
  \/ CopyDemangledSymbol
  \/ CallStep

Spec == Init /\ [][Next]_vars

\* The extension while the user scrolls: activation, changes of the visible
\* ranges, the passing of time and the timers, edits and changes of the
\* active editor in between, and the calls they start.
InitScroll ==
  /\ Init
  /\ platform = "linux"
  /\ activeTextEditor = 1
  /\ documents = [e \in Editors |-> DocSymbols]

NextScroll ==
  \/ ActivateCore
  \/ ActivateCopier
  \/ ActivateDecorator
  \/ \E e \in Editors : \E ranges \in RangeChoices : VisibleRangesChange(e, ranges)
  \/ \E e \in {NoEditor, 1} : ActiveTextEditorChange(e)
  \/ \E doc \in DocumentChoices : TextDocumentChange(1, doc)
  \/ \E t \in TimeSteps : Elapse(t)
  \/ \E id \in TimerIds : TimerFire(id)
  \/ CallStep

SpecScroll == InitScroll /\ [][NextScroll]_vars

\* The extension while the user changes settings: activation, every kind of
\* configuration change, and the calls they start.
InitConfig ==
  /\ Init
  /\ platform = "linux"
  /\ activeTextEditor = 1
  /\ visibleTextEditors = <<1>>
  /\ documents = [e \in Editors |-> DocSymbols]

NextConfig ==
  \/ ActivateCore
  \/ ActivateCopier
  \/ ActivateDecorator
  \/ \E paths \in ToolPathSettings : ChangeToolPaths(paths)
  \/ \E d \in Demanglers : ChangeSectionSetting(d)
  \/ ChangeOtherSetting
  \/ \E d \in Demanglers, value \in WarningAnswers : AnswerWarning(d, value)
  \/ CallStep

SpecConfig == InitConfig /\ [][NextConfig]_vars

-----------------------------------------------------------------------------
(* demangleSymbolsInRanges on one range that covers a document, one step of *)
(* its loops at a time.  The patterns are objects of the demanglers: their  *)
(* lastIndex is what the call before left.                                  *)

\* The call begins: mangledSymbols is empty and the loop over lines starts.
BeginScan(doc, spawnable) ==
  /\ scanner.pc = "idle"
  /\ scanner' = [scanner EXCEPT !.pc = "line", !.document = doc,
                                !.spawnable = spawnable, !.line = 0,
                                !.lineSymbols = <<>>, !.mangledSymbols = <<>>,
                                !.index = 0]
  /\ UNCHANGED extension

\* `const text = document.lineAt(line).text` and the start of the loop over
\* the demanglers.
ReadLine ==
  /\ scanner.pc = "line"
  /\ scanner.line < Len(scanner.document)
  /\ scanner' = [scanner EXCEPT !.pc = "exec", !.demangler = 1, !.execs = 0,
                                !.lineSymbols = <<>>]
  /\ UNCHANGED extension

\* `if (!demangler.isAvailable()) continue`.
SkipDemangler ==
  /\ scanner.pc = "exec"
  /\ scanner.demangler <= Len(demanglers)
  /\ ~isAvailable(scanner.spawnable, demanglers[scanner.demangler])
  /\ scanner' = [scanner EXCEPT !.demangler = @ + 1, !.execs = 0]
  /\ UNCHANGED extension

\* A condition of the while loop that is an `if`: the loop is left after
\* its first match.
ExecPatternOnce ==
  /\ scanner.pc = "exec"
  /\ scanner.demangler <= Len(demanglers)
  /\ isAvailable(scanner.spawnable, demanglers[scanner.demangler])
  /\ LET d == demanglers[scanner.demangler]
         Body(m) ==
           IF m.found
             THEN scanner' =
                    [scanner EXCEPT
                       !.lastIndex[d] = m.lastIndex,
                       !.execs = 0,
                       !.demangler = @ + 1,
                       !.lineSymbols =
                          Append(@, [symbol |-> m.match, demangler |-> d,
                                     position |-> Position(scanner.line, m.index)])]
             ELSE scanner' = [scanner EXCEPT !.lastIndex[d] = m.lastIndex,
                                             !.execs = 0,
                                             !.demangler = @ + 1]
     IN Body(Exec(d, scanner.document[scanner.line + 1].text, scanner.lastIndex[d]))
  /\ UNCHANGED extension

\* The condition of the while loop, `(match = pattern.exec(text)) !== null`,
\* and the body it guards: a match is pushed and the loop goes on; when
\* there is none the loop over the demanglers goes on.
ExecPattern ==
  /\ scanner.pc = "exec"
  /\ scanner.demangler <= Len(demanglers)
  /\ isAvailable(scanner.spawnable, demanglers[scanner.demangler])
  /\ LET d == demanglers[scanner.demangler]
         Body(m) ==
           IF m.found
             THEN scanner' =
                    [scanner EXCEPT
                       !.lastIndex[d] = m.lastIndex,
                       !.execs = @ + 1,
                       !.lineSymbols =
                          Append(@, [symbol |-> m.match, demangler |-> d,
                                     position |-> Position(scanner.line, m.index)])]
             ELSE scanner' = [scanner EXCEPT !.lastIndex[d] = m.lastIndex,
                                             !.execs = 0,
                                             !.demangler = @ + 1]
     IN Body(Exec(d, scanner.document[scanner.line + 1].text, scanner.lastIndex[d]))
  /\ UNCHANGED extension

\* The loop over the demanglers is through: the next line.
EndLine ==
  /\ scanner.pc = "exec"
  /\ scanner.demangler > Len(demanglers)
  /\ scanner' = [scanner EXCEPT !.pc = "line", !.line = @ + 1,
                                !.mangledSymbols = @ \o scanner.lineSymbols]
  /\ UNCHANGED extension

\* The loop over the lines is through: the loop over mangledSymbols starts.
EndScan ==
  /\ scanner.pc = "line"
  /\ scanner.line >= Len(scanner.document)
  /\ scanner' = [scanner EXCEPT !.pc = "resolve", !.index = 0]
  /\ UNCHANGED extension

\* One turn of the loop over mangledSymbols, whose lookup returns.
ResolveSymbol ==
  /\ scanner.pc = "resolve"
  /\ scanner.index < Len(scanner.mangledSymbols)
  /\ scanner' = [scanner EXCEPT !.index = @ + 1]
  /\ UNCHANGED extension

\* `return results`: the patterns stay as the call leaves them.
ReturnResults ==
  /\ scanner.pc = "resolve"
  /\ scanner.index >= Len(scanner.mangledSymbols)
  /\ scanner' = [NoScan EXCEPT !.lastIndex = scanner.lastIndex]
  /\ UNCHANGED extension

InitScan ==
  /\ Init
  /\ platform = "linux"
  /\ activeTextEditor = NoEditor
  /\ visibleTextEditors = <<1>>
  /\ documents = [e \in Editors |-> DocSymbols]
  /\ visibleRanges = [e \in Editors |-> << Range(Position(0, 0), Position(1, 0)) >>]

NextScan ==
  \/ \E doc \in ScanDocuments : \E spawnable \in [Demanglers -> BOOLEAN] :
       BeginScan(doc, spawnable)
  \/ ReadLine
  \/ SkipDemangler
  \/ ExecPattern
  \/ EndLine
  \/ EndScan
  \/ ResolveSymbol
  \/ ReturnResults

\* The scan and resolution loops, call after call.
SpecScan == InitScan /\ [][NextScan]_vars

\* The same, with the loops run to their end: the code between two awaits is
\* not interrupted, and each awaited lookup is taken to return.
SpecScanFair ==
  /\ SpecScan
  /\ WF_vars(ReadLine) /\ WF_vars(SkipDemangler) /\ WF_vars(ExecPattern)
  /\ WF_vars(EndLine) /\ WF_vars(EndScan) /\ WF_vars(ResolveSymbol)
  /\ WF_vars(ReturnResults)

-----------------------------------------------------------------------------
(* The cache.                                                               *)

\* C1: with no invalidation in between, demangle is invoked at most once for
\* a symbol, whatever the first invocation returned: no lookup demangles a
\* symbol that was demangled since the cache was last cleared.
C1_DemangledAtMostOnce ==
  \A i \in DOMAIN lookups : ~(lookups[i].demangled /\ lookups[i].again)

\* C2: a symbol whose negative outcome is cached is served from the cache:
\* no lookup that finds a cached null invokes demangle.
C2_NegativeServedFromCache ==
  \A i \in DOMAIN lookups : lookups[i].cached = "negative" => ~lookups[i].demangled

\* C3: after an invalidation the cache holds no entry from before it (what
\* it holds was demangled since), and the first lookup afterwards of a symbol
\* whose negative was cached finds no entry and invokes demangle.
C3_InvalidationClears ==
  /\ DOMAIN demangleCache \subseteq attempted
  /\ \A i \in DOMAIN lookups :
       (/\ lookups[i].symbol \in DOMAIN clearedCache
        /\ clearedCache[lookups[i].symbol] = Null
        /\ ~lookups[i].again)
       => lookups[i].demangled /\ lookups[i].cached = "absent"

\* C3 happens: a symbol whose negative an invalidation cleared is looked up
\* for the first time since and demangled.
C3_ClearedNegativeRetried ==
  \E i \in DOMAIN lookups :
    /\ lookups[i].symbol \in DOMAIN clearedCache
    /\ clearedCache[lookups[i].symbol] = Null
    /\ ~lookups[i].again
    /\ lookups[i].demangled

\* C4: the cache is cleared before onDidInvalidate is delivered: a lookup
\* made from inside the subscriber's handler never finds an entry stored
\* before the invalidation.
C4_ClearBeforeNotify ==
  \A i \in DOMAIN lookups : lookups[i].caller = "invalidate" => ~lookups[i].stale

\* C4 happens: the subscriber's handler looks up a symbol whose demangled
\* form the invalidation cleared, and has to demangle it.
C4_SubscriberMissesClearedEntry ==
  \E i \in DOMAIN lookups :
    /\ lookups[i].caller = "invalidate"
    /\ lookups[i].symbol \in DOMAIN clearedCache
    /\ clearedCache[lookups[i].symbol] # Null
    /\ lookups[i].demangled

\* C5: an unavailable demangler is left out: the scan of a call yields no
\* occurrence of a demangler that is unavailable at the scan, and demangle is
\* never invoked on a demangler that is unavailable at that moment.
C5_UnavailableExcluded ==
  /\ \A c \in DOMAIN calls : \A j \in DOMAIN calls[c].mangledSymbols :
       isAvailable(calls[c].availableAtScan, calls[c].mangledSymbols[j].demangler)
  /\ \A i \in DOMAIN lookups : lookups[i].demangled => lookups[i].available

\* C6: every entry written to the cache is written by a demangler that is
\* available when its demangle is invoked.
C6_NoEntryFromUnavailable ==
  \A i \in DOMAIN lookups : lookups[i].stored => lookups[i].available

\* C18: a demangle whose tool cannot be run returns the negative outcome:
\* it does not raise, so that its call goes on, and what it returns and
\* stores is null.
C18_ExternalFailureNegative ==
  \A i \in DOMAIN lookups :
    (lookups[i].demangled /\ ~lookups[i].available) =>
      /\ lookups[i].stored
      /\ demangleCache[lookups[i].symbol] = Null

\* C22: no lookup finds in the cache an entry that was written before the
\* last invalidation, whichever call makes it: a call that was waiting when
\* the invalidation ran finds, for a key cached before, nothing or an entry
\* written since.
C22_NoEntryFromBeforeInvalidation ==
  \A i \in DOMAIN lookups : lookups[i].cached # "absent" => ~lookups[i].old

\* C22 happens: a call that scanned before a tool path changed has resumed
\* after the invalidation and looked up a key that was cached before it.
C22_ResumedAfterInvalidation ==
  /\ Len(lookups) = 1
  /\ lookups[1].caller = "resume"
  /\ lookups[1].symbol \in DOMAIN clearedCache
  /\ calls # <<>>
  /\ LET call == calls[Len(calls)]
     IN /\ call.state = "awaiting"
        /\ call.index >= 2
        /\ Str(call.mangledSymbols[call.index].symbol) = lookups[1].symbol
        /\ call.availableAtScan # canSpawnTool

\* C23: the cache is written for a key only when the key is absent, and
\* between two invalidations the value of a key that is present stays.
C23_EntryStable ==
  [][/\ \A i \in DOMAIN lookups' :
          lookups'[i].stored => lookups'[i].cached = "absent"
     /\ currentToolPath' = currentToolPath =>
          \A k \in DOMAIN demangleCache \cap DOMAIN demangleCache' :
            demangleCache'[k] = demangleCache[k]]_vars

-----------------------------------------------------------------------------
(* demangleSymbolsInRanges.                                                 *)

\* C7: a range whose end offset minus start offset exceeds 1024*1024
\* contributes nothing: the scan adds no occurrence for it, the occurrences
\* of a call are those added for its ranges, and every lookup is of an
\* occurrence of a call.
C7_WindowCeiling ==
  /\ \A c \in DOMAIN calls :
       LET call == calls[c]
           RECURSIVE Added(_)
           Added(j) == IF j > Len(call.ranges) THEN <<>>
                       ELSE call.scanned[j] \o Added(j + 1)
       IN /\ \A j \in DOMAIN call.ranges :
               offsetAt(call.document, call.ranges[j].end)
                 - offsetAt(call.document, call.ranges[j].start) > 1024 * 1024
               => call.scanned[j] = <<>>
          /\ call.mangledSymbols = Added(1)
  /\ \A i \in DOMAIN lookups :
       \E c \in DOMAIN calls : \E j \in DOMAIN calls[c].mangledSymbols :
         Str(calls[c].mangledSymbols[j].symbol) = lookups[i].symbol

\* C7 happens: a call was given a range over the ceiling whose lines hold
\* symbols, next to a range that is scanned.
C7_OversizedRangeSkipped ==
  \E c \in DOMAIN calls :
    /\ \E j \in DOMAIN calls[c].ranges :
         offsetAt(calls[c].document, calls[c].ranges[j].end)
           - offsetAt(calls[c].document, calls[c].ranges[j].start) > 1024 * 1024
    /\ calls[c].document = DocLong
    /\ calls[c].mangledSymbols # <<>>

\* C26: for a range from line s to line e that is not over the ceiling, the
\* occurrences the scan adds are those of the lines max(0, s-1) through
\* min(e+1, lineCount-1), line after line, and of no other line.
C26_WindowPadding ==
  \A c \in DOMAIN calls : \A j \in DOMAIN calls[c].ranges :
    LET call == calls[c]
        lo == Max(0, call.ranges[j].start.line - 1)
        hi == Min(call.ranges[j].end.line + 1, Len(call.document) - 1)
        RECURSIVE Window(_)
        Window(l) ==
          IF l > hi THEN <<>>
          ELSE ScanDemanglers(call.availableAtScan, call.document[l + 1].text, l, 1)
               \o Window(l + 1)
    IN ~TooLarge(call.document, call.ranges[j]) =>
         /\ call.scanned[j] = Window(lo)
         /\ \A i \in DOMAIN call.scanned[j] :
              call.scanned[j][i].position.line \in lo..hi

\* C26 happens: a range of one line, not the first and not the last, gave
\* occurrences of the line before it and of the line after it.
C26_BothPaddingLinesScanned ==
  \E c \in DOMAIN calls : \E j \in DOMAIN calls[c].ranges :
    LET r == calls[c].ranges[j]
        ms == calls[c].scanned[j]
    IN /\ r.start.line = r.end.line
       /\ r.start.line > 0
       /\ r.end.line < Len(calls[c].document) - 1
       /\ \E i \in DOMAIN ms : ms[i].position.line = r.start.line - 1
       /\ \E i \in DOMAIN ms : ms[i].position.line = r.end.line + 1

\* C27: the ceiling is that of the padded window: a range whose lines
\* max(0, s-1) through min(e+1, lineCount-1) span more than 1024*1024
\* characters adds no occurrence.
C27_CeilingOnPaddedWindow ==
  \A c \in DOMAIN calls : \A j \in DOMAIN calls[c].ranges :
    LET doc == calls[c].document
        lo == Max(0, calls[c].ranges[j].start.line - 1)
        hi == Min(calls[c].ranges[j].end.line + 1, Len(doc) - 1)
        span == LineStart(doc, hi) + LineLength(doc[hi + 1]) - LineStart(doc, lo)
    IN span > 1024 * 1024 => calls[c].scanned[j] = <<>>

\* C28: a call given a range over the ceiling has the occurrences of the
\* same call without that range, which its lookups then follow in order, and
\* it is rejected only when one of its lookups threw, never for the range.
C28_OversizedRangeLocal ==
  \A c \in DOMAIN calls :
    LET call == calls[c]
        Within(r) == ~(offsetAt(call.document, r.end)
                         - offsetAt(call.document, r.start) > 1024 * 1024)
        others == SelectSeq(call.ranges, Within)
    IN Len(others) < Len(call.ranges) =>
         /\ call.mangledSymbols
              = ScanRanges(call.availableAtScan, call.document, others)
         /\ call.state = "rejected" => call.awaited = Threw
         /\ call.state = "returned" => Len(call.outcomes) = Len(call.mangledSymbols)

\* C28 happens: a call with a range over the ceiling and a range within it
\* has returned the results of the range within it.
C28_OtherRangeResolved ==
  \E c \in DOMAIN calls :
    /\ \E j \in DOMAIN calls[c].ranges : TooLarge(calls[c].document, calls[c].ranges[j])
    /\ \E j \in DOMAIN calls[c].ranges : ~TooLarge(calls[c].document, calls[c].ranges[j])
    /\ calls[c].state = "returned"
    /\ calls[c].results # <<>>

\* C29: from its first lookup on the occurrences of a call are the whole
\* scan of its ranges, a function of the document, the ranges and the
\* availability at the scan alone, as many as the scan of each range added;
\* the lookups follow, one occurrence after the other, each of them an
\* occurrence of that list; and whether a lookup invokes demangle depends on
\* the cache alone, not on the availability at that moment.
C29_ScanPrecedesResolution ==
  /\ \A c \in DOMAIN calls :
       LET call == calls[c]
           RECURSIVE Added(_)
           Added(j) == IF j > Len(call.ranges) THEN 0
                       ELSE Len(call.scanned[j]) + Added(j + 1)
       IN /\ call.mangledSymbols
               = ScanRanges(call.availableAtScan, call.document, call.ranges)
          /\ Len(call.mangledSymbols) = Added(1)
          /\ call.state = "awaiting" =>
               /\ call.index \in 1..Len(call.mangledSymbols)
               /\ Len(call.outcomes) = call.index - 1
  /\ \A i \in DOMAIN lookups :
       /\ lookups[i].demangled = (lookups[i].cached # "positive")
       /\ \E c \in DOMAIN calls :
            /\ calls[c].index \in 1..Len(calls[c].mangledSymbols)
            /\ Str(calls[c].mangledSymbols[calls[c].index].symbol) = lookups[i].symbol

\* C29 happens: a call whose scan found occurrences of both demanglers looks
\* up its second occurrence or a later one, of a demangler that has become
\* unavailable since the scan, and demangle is invoked for it.
C29_LookupAfterAvailabilityLost ==
  \E c \in DOMAIN calls :
    LET call == calls[c]
    IN /\ call.state = "awaiting"
       /\ call.index >= 2
       /\ {call.mangledSymbols[j].demangler : j \in DOMAIN call.mangledSymbols}
            = Demanglers
       /\ Len(lookups) = 1
       /\ lookups[1].symbol = Str(call.mangledSymbols[call.index].symbol)
       /\ lookups[1].demangler = call.mangledSymbols[call.index].demangler
       /\ ~lookups[1].available
       /\ lookups[1].demangled

\* C19, as stated: in what one scan produces, the occurrences of one
\* demangler on one line are in left-to-right order and all occurrences of
\* an earlier-registered demangler precede those of a later-registered one.
C19_ResolverOrderThenMatchOrder ==
  \A c \in DOMAIN calls : \A r \in DOMAIN calls[c].scanned :
    LET ms == calls[c].scanned[r]
        reg(d) == CHOOSE n \in DOMAIN demanglers : demanglers[n] = d
    IN \A i \in DOMAIN ms : \A j \in DOMAIN ms :
         i < j =>
           /\ reg(ms[i].demangler) <= reg(ms[j].demangler)
           /\ (/\ ms[i].demangler = ms[j].demangler
               /\ ms[i].position.line = ms[j].position.line)
                => ms[i].position.character < ms[j].position.character

\* C19, amended: the occurrences of a call are those of its ranges, range
\* by range in the order given; those of one range are in ascending line
\* order, within a line in registration order of the demanglers, and for
\* one demangler within a line in left-to-right order.
C19_ScanOrder ==
  \A c \in DOMAIN calls :
    LET scanned == calls[c].scanned
        reg(d) == CHOOSE n \in DOMAIN demanglers : demanglers[n] = d
        RECURSIVE Upto(_)
        Upto(r) == IF r = 0 THEN <<>> ELSE Upto(r - 1) \o scanned[r]
    IN /\ calls[c].mangledSymbols = Upto(Len(scanned))
       /\ \A r \in DOMAIN scanned :
            \A i \in DOMAIN scanned[r] : \A j \in DOMAIN scanned[r] :
              LET a == scanned[r][i]
                  b == scanned[r][j]
              IN i < j =>
                   /\ a.position.line <= b.position.line
                   /\ a.position.line = b.position.line =>
                        /\ reg(a.demangler) <= reg(b.demangler)
                        /\ a.demangler = b.demangler =>
                             a.position.character < b.position.character

\* C19 happens: a range was scanned in which a line holds two occurrences
\* of one demangler and one of the other, and a later line an occurrence of
\* the first-registered demangler.
C19_LaterLineEarlierDemangler ==
  \E c \in DOMAIN calls : \E r \in DOMAIN calls[c].scanned :
    LET ms == calls[c].scanned[r]
    IN \E i \in DOMAIN ms : \E j \in DOMAIN ms : \E k \in DOMAIN ms : \E l \in DOMAIN ms :
         /\ i < j /\ j < k /\ k < l
         /\ ms[i].demangler = demanglers[1]
         /\ ms[j].demangler = demanglers[1]
         /\ ms[k].demangler = demanglers[2]
         /\ ms[l].demangler = demanglers[1]
         /\ ms[j].position.line = ms[i].position.line
         /\ ms[k].position.line = ms[i].position.line
         /\ ms[l].position.line > ms[k].position.line

\* C9: two calls with the same document and the same ranges, with no edit,
\* configuration change or invalidation between them, return the same
\* results, whatever the cache held when each started.
C9_Idempotent ==
  \A a \in finished : \A b \in finished :
    (a.document = b.document /\ a.ranges = b.ranges) => a.results = b.results

\* C9 happens: of two such calls that returned results, one started with an
\* empty cache and the other with a populated one.
C9_ColdAndWarmCall ==
  \E a \in finished : \E b \in finished :
    /\ a.document = b.document
    /\ a.ranges = b.ranges
    /\ ~a.warm
    /\ b.warm
    /\ a.results # <<>>

\* C10: the results of a call that returned are its scanned occurrences
\* whose outcome is not null, in scan order, each with the range from the
\* scanned position to that position plus the symbol's length and with the
\* outcome its lookup gave.
C10_DispatcherResult ==
  \A c \in DOMAIN calls :
    LET call == calls[c]
        RECURSIVE Expected(_)
        Expected(j) ==
          IF j > Len(call.mangledSymbols) THEN <<>>
          ELSE LET occ == call.mangledSymbols[j]
               IN (IF call.outcomes[j] = Null THEN <<>>
                   ELSE << [range |->
                              [start |-> [line |-> occ.position.line,
                                          character |-> occ.position.character],
                               end |-> [line |-> occ.position.line,
                                        character |-> occ.position.character
                                                        + Len(occ.symbol)]],
                            result |-> call.outcomes[j]] >>)
                  \o Expected(j + 1)
    IN call.state = "returned" =>
         /\ Len(call.outcomes) = Len(call.mangledSymbols)
         /\ call.results = Expected(1)

\* C10 happens: a call returned with a null outcome dropped and a result for
\* a symbol that does not start its line.
C10_ReturnedWithDroppedOccurrence ==
  \E c \in DOMAIN calls :
    /\ calls[c].state = "returned"
    /\ \E j \in DOMAIN calls[c].outcomes : calls[c].outcomes[j] = Null
    /\ \E j \in DOMAIN calls[c].results : calls[c].results[j].range.start.character > 0

\* C11: with several calls in flight, the results of a call are spans of
\* occurrences scanned for that call: each result's range is the range of
\* one of the call's own occurrences already looked up, that occurrence is
\* text of the call's document on a line scanned for one of the call's
\* ranges, and there are no more results than occurrences looked up.
C11_OutputIsolation ==
  \A c \in DOMAIN calls :
    LET call == calls[c]
    IN /\ Len(call.results) <= Len(call.outcomes)
       /\ \A k \in DOMAIN call.results :
            \E j \in 1..Len(call.outcomes) :
              LET occ == call.mangledSymbols[j]
                  text == call.document[occ.position.line + 1].text
              IN /\ call.results[k].range.start = occ.position
                 /\ call.results[k].range.end.line = occ.position.line
                 /\ call.results[k].range.end.character
                      = occ.position.character + Len(occ.symbol)
                 /\ call.results[k].result = call.outcomes[j]
                 /\ SubSeq(text, occ.position.character + 1,
                           occ.position.character + Len(occ.symbol)) = occ.symbol
                 /\ \E r \in DOMAIN call.ranges :
                      /\ occ.position.line >= call.ranges[r].start.line - 1
                      /\ occ.position.line <= call.ranges[r].end.line + 1

\* C11 happens: two calls on different documents are in flight and both
\* hold results.
C11_TwoCallsWithResults ==
  \E a \in DOMAIN calls : \E b \in DOMAIN calls :
    /\ calls[a].document # calls[b].document
    /\ calls[a].results # <<>>
    /\ calls[b].results # <<>>
    /\ calls[a].results # calls[b].results

\* C12: the output of a run is not applied once the same consumer has
\* started a newer run for the same target: neither the decorations of an
\* editor nor the copier's active symbol ever come from a superseded run.
C12_StaleRunDiscarded ==
  /\ \A e \in Editors : applied.decorations[e] # "stale"
  /\ applied.activeSymbol # "stale"

-----------------------------------------------------------------------------
(* The copier.                                                              *)

\* C21: when the copy command runs with one cursor in the active editor
\* and no call in flight, what it writes to the clipboard is the demangled text of a symbol of the
\* cursor's line, in the document as it is now, whose range contains the
\* cursor and which the cache or the demangler, as they are now, resolve;
\* when there is no such symbol it shows the warning and writes nothing.
C21_CopyUnderCursor ==
  (/\ copied.did # "nothing"
   /\ calls = <<>>
   /\ Len(selections[activeTextEditor]) = 1
   /\ isEmpty(selections[activeTextEditor][1])) =>
    LET doc == documents[activeTextEditor]
        position == selections[activeTextEditor][1].active
        occs == ScanRange(canSpawnTool, doc, LineRange(doc, position))
        Outcome(occ) ==
          IF CacheHit(demangleCache, Str(occ.symbol))
            THEN cachedResult(demangleCache, Str(occ.symbol))
            ELSE demangle(platform, occ.demangler, currentToolPath[occ.demangler],
                          occ.symbol)
        under == {i \in DOMAIN occs :
                    /\ contains(ResultRange(occs[i]), position)
                    /\ Outcome(occs[i]) \notin {Null, Threw}}
    IN IF under = {} THEN copied.did = "showWarningMessage"
       ELSE /\ copied.did = "writeText"
            /\ \E i \in under : copied.text = Outcome(occs[i]).demangled

-----------------------------------------------------------------------------
(* The decorator.                                                           *)

\* C8: a burst of visible-range events, each less than 100 ms after the one
\* before, leads to one call of decorateSymbolsInRanges: until 100 ms have
\* passed since the last event nothing was called and one timer is pending,
\* due 100 ms after the last event and holding its editor and ranges; then
\* one call was made, with the editor and ranges of the last event.
C8_DebounceCoalesces ==
  burst.len >= 1 =>
    /\ burst.fired = 0 =>
         /\ Cardinality(DOMAIN timers) = 1
         /\ \A id \in DOMAIN timers :
              /\ timers[id].remaining = 100 - burst.since
              /\ <<timers[id].textEditor, timers[id].visibleRanges>> = burst.last
    /\ burst.fired > 0 =>
         /\ burst.fired = 1
         /\ burst.since = 100
         /\ burst.firedWith = burst.last
         /\ DOMAIN timers = {}

\* C8 happens: a burst of several events has led to its call.
C8_BurstDecorated ==
  /\ burst.len >= 2
  /\ burst.fired = 1
  /\ calls # <<>>

\* C25: at most one visible-ranges timer is pending, it is the one the
\* handle names, and the handle is null when none is pending.
C25_OnePendingTimer ==
  /\ Cardinality(DOMAIN timers) <= 1
  /\ DOMAIN timers \subseteq {changeVisibleRangesTimer}
  /\ DOMAIN timers = {} => changeVisibleRangesTimer = NoTimer

\* C25 happens: an event came while the timer of the event before was
\* pending, and later the timer that was left has fired.
C25_RescheduledThenFired ==
  /\ burst.len >= 2
  /\ burst.fired = 1
  /\ DOMAIN timers = {}

\* C32: an invalidation event starts, within its own step, not a timer's,
\* one call for each visible editor, in order, over the editor's visible
\* ranges and scanned with the availability the event leaves; and once no
\* call is in flight the decorations of every visible editor are those of
\* its visible ranges as the tools and their availability now resolve them.
C32_InvalidationRedecorates ==
  /\ (notices # <<>> /\ notices[Len(notices)] = "fire") =>
       LET n == Len(visibleTextEditors)
       IN /\ Len(calls) >= n
          /\ \A k \in 1..n :
               LET call == calls[Len(calls) - n + k]
               IN /\ call.consumer = "decorator"
                  /\ call.editor = visibleTextEditors[k]
                  /\ call.ranges = visibleRanges[call.editor]
                  /\ call.document = documents[call.editor]
                  /\ call.availableAtScan = canSpawnTool
                  /\ call.index <= 1
                  /\ ~call.superseded
  /\ (calls = <<>> /\ phase = "active") =>
       \A k \in DOMAIN visibleTextEditors :
         LET e == visibleTextEditors[k]
             occs == ScanRanges(canSpawnTool, documents[e], visibleRanges[e])
             RECURSIVE Resolved(_)
             Resolved(i) ==
               IF i > Len(occs) THEN <<>>
               ELSE LET Pushed(r) ==
                          IF r \in {Null, Threw} THEN <<>>
                          ELSE << [range |-> ResultRange(occs[i]), result |-> r] >>
                    IN Pushed(demangle(platform, occs[i].demangler,
                                       currentToolPath[occs[i].demangler],
                                       occs[i].symbol))
                       \o Resolved(i + 1)
         IN decorations[e] = DecorationOptions(Resolved(1))

\* C35: the ranges of an editor's visible-range event are not lost: a timer
\* pending for an editor either stays, or gives way to a timer for the same
\* editor, or fires and starts the call for that editor with its ranges.
C35_EditorsTimerNotLost ==
  [][\A id \in DOMAIN timers :
       LET e == timers[id].textEditor
       IN \/ \E j \in DOMAIN timers' : timers'[j].textEditor = e
          \/ \E c \in DOMAIN calls' :
               /\ calls'[c].consumer = "decorator"
               /\ calls'[c].editor = e
               /\ calls'[c].ranges = timers[id].visibleRanges]_vars

\* C17: a change of the active editor to an editor, and an edit of the
\* active editor's document, start a call for that editor and its visible
\* ranges within the handler, whether or not a timer is pending, and leave
\* the timers and the timer handle as they were.
C17_EditsAndFocusNotDebounced ==
  [][LET focus == activeTextEditor' # activeTextEditor /\ activeTextEditor' # NoEditor
         edit == /\ activeTextEditor # NoEditor
                 /\ documents'[activeTextEditor] # documents[activeTextEditor]
     IN (focus \/ edit) =>
          /\ Len(calls') > Len(calls)
          /\ LET call == calls'[Len(calls')]
             IN /\ call.consumer = "decorator"
                /\ call.editor = activeTextEditor'
                /\ call.ranges = visibleRanges[activeTextEditor']
                /\ call.document = documents'[activeTextEditor']
          /\ timers' = timers
          /\ changeVisibleRangesTimer' = changeVisibleRangesTimer]_vars

\* C17 happens: an edit or a change of the active editor has started a call
\* that looked symbols up while a timer set some time ago is still pending.
C17_CallWhileTimerPending ==
  /\ \E id \in DOMAIN timers : timers[id].remaining < DebounceDelay
  /\ changeVisibleRangesTimer # NoTimer
  /\ \E i \in DOMAIN lookups : lookups[i].caller \in {"edit", "active"}

-----------------------------------------------------------------------------
(* Configuration changes.                                                   *)

\* C14: on a configuration event every registered demangler is asked, in
\* registration order, whatever the earlier ones returned; the cache is
\* cleared once and the invalidation event fired once when one of them
\* returned true, and neither happens when all returned false, nor in a
\* step that is not a configuration event.
C14_InvalidationDecision ==
  IF reports # <<>> /\ reports[1].onEvent
    THEN /\ Len(reports) = Len(demanglers)
         /\ \A i \in DOMAIN reports : reports[i].demangler = demanglers[i]
         /\ notices = IF \E i \in DOMAIN reports : reports[i].changed
                        THEN <<"clear", "fire">> ELSE <<>>
    ELSE notices = <<>>

\* C14 happens: the first demangler returned true, the second was asked
\* all the same and returned true as well.
C14_BothReturnedTrue ==
  /\ Len(reports) = 2
  /\ reports[1].onEvent
  /\ reports[1].changed
  /\ reports[2].changed
  /\ notices = <<"clear", "fire">>

\* C15, as stated: a demangler returns true for an event only when its
\* availability flag differs before and after.
C15_TrueOnlyOnAvailabilityChange ==
  \A i \in DOMAIN reports :
    (reports[i].onEvent /\ reports[i].changed)
      => reports[i].availableBefore # reports[i].availableAfter

\* C15, amended: a demangler returns true for an event exactly when the
\* event affects its section and the toolPath setting differs from the path
\* it held, whether or not its availability changes; the path it holds
\* afterwards is the setting, and the flag tells whether that path can be
\* spawned.
C15_TrueIffToolPathChanges ==
  \A i \in DOMAIN reports :
    reports[i].onEvent =>
      /\ reports[i].changed <=>
            (/\ reports[i].affected
             /\ reports[i].pathBefore # toolPathSetting[reports[i].demangler])
      /\ reports[i].changed =>
            /\ reports[i].pathAfter = toolPathSetting[reports[i].demangler]
            /\ reports[i].availableAfter = canSpawnSync(reports[i].pathAfter)

\* C15 happens: a demangler returned true for an event that changed its
\* tool path and left its availability as it was.
C15_PathChangedAvailabilityKept ==
  \E i \in DOMAIN reports :
    /\ reports[i].onEvent
    /\ reports[i].changed
    /\ reports[i].pathBefore # reports[i].pathAfter
    /\ reports[i].availableBefore = reports[i].availableAfter

\* C30: a demangler is unavailable until activation; afterwards its flag
\* changes only in an updateAvailability that finds the toolPath setting
\* different from the path it holds, and becomes what the probe of the new
\* path says; and while it is unavailable it is left out: no scan yields an
\* occurrence of it and no demangle is invoked for it.
C30_AvailabilityByProbe ==
  [][/\ phase = "constructed" => \A d \in Demanglers : ~isAvailable(canSpawnTool, d)
     /\ \A d \in Demanglers :
          canSpawnTool'[d] # canSpawnTool[d] =>
            /\ currentToolPath'[d] # currentToolPath[d]
            /\ currentToolPath'[d] = toolPathSetting'[d]
            /\ canSpawnTool'[d] = canSpawnSync(currentToolPath'[d])
            /\ \E i \in DOMAIN reports' :
                 /\ reports'[i].demangler = d
                 /\ reports'[i].probed
                 /\ reports'[i].pathBefore # reports'[i].pathAfter
     /\ \A c \in DOMAIN calls' : \A j \in DOMAIN calls'[c].mangledSymbols :
          isAvailable(calls'[c].availableAtScan, calls'[c].mangledSymbols[j].demangler)
     /\ \A i \in DOMAIN lookups' :
          ~lookups'[i].available => ~lookups'[i].demangled]_vars

\* C16: for an event that does not affect its section a demangler returns
\* false, reads no tool path, probes nothing and keeps its path and flag.
C16_NamespaceShortCircuit ==
  \A i \in DOMAIN reports :
    (reports[i].onEvent /\ ~reports[i].affected) =>
      /\ ~reports[i].changed
      /\ ~reports[i].read
      /\ ~reports[i].probed
      /\ reports[i].pathAfter = reports[i].pathBefore
      /\ reports[i].availableAfter = reports[i].availableBefore
      /\ currentToolPath[reports[i].demangler] = reports[i].pathBefore
      /\ canSpawnTool[reports[i].demangler] = reports[i].availableBefore

\* C16 happens: an event changed the tool of the first demangler and did not
\* affect the section of the second.
C16_OtherSectionChanged ==
  /\ Len(reports) = 2
  /\ reports[1].changed
  /\ reports[2].onEvent
  /\ ~reports[2].affected

-----------------------------------------------------------------------------
(* Activation.                                                              *)

\* C31: the step that begins activation calls updateAvailability once for
\* each demangler, in order and without an event, and each call probes; no
\* later step does so again; and no call of demangleSymbolsInRanges and no
\* lookup exists before that step, so that every call finds each demangler
\* with a tool path that has been probed.
C31_ProbedOnceBeforeAnnotate ==
  [][/\ phase = "constructed" =>
          /\ calls = <<>>
          /\ lookups = <<>>
          /\ phase' # "constructed" =>
               /\ calls' = <<>>
               /\ Len(reports') = Len(demanglers)
               /\ \A i \in DOMAIN reports' :
                    /\ reports'[i].demangler = demanglers[i]
                    /\ ~reports'[i].onEvent
                    /\ reports'[i].probed
     /\ phase # "constructed" =>
          /\ phase' # "constructed"
          /\ \A i \in DOMAIN reports' : reports'[i].onEvent
     /\ \A c \in DOMAIN calls' : \A d \in Demanglers :
          /\ currentToolPath'[d] # ""
          /\ canSpawnTool'[d] = canSpawnSync(currentToolPath'[d])]_vars

\* C31 happens: activation has come to the copier, whose call is the first
\* and has scanned with a demangler the probe found available.
C31_FirstCallAfterProbe ==
  /\ phase = "copier"
  /\ Len(calls) = 1
  /\ calls[1].consumer = "copier"
  /\ calls[1].mangledSymbols # <<>>
  /\ \E d \in Demanglers : calls[1].availableAtScan[d]

-----------------------------------------------------------------------------
(* The scan loops.                                                          *)

\* C33: the loops of a call end.  A match of a pattern moves its lastIndex
\* forward by at least one character, so the while loop on a line pushes at
\* most as many matches as the line has characters; and a call that has
\* begun comes to its return when each of its lookups returns.
C33_ScanTerminates ==
  /\ [][\A d \in Demanglers :
          Len(scanner'.lineSymbols) > Len(scanner.lineSymbols) =>
            /\ scanner'.lastIndex[d] >= scanner.lastIndex[d]
            /\ \E e \in Demanglers : scanner'.lastIndex[e] > scanner.lastIndex[e]]_vars
  /\ [](scanner.pc = "exec" =>
          scanner.execs <= LineLength(scanner.document[scanner.line + 1]))
  /\ (scanner.pc # "idle") ~> (scanner.pc = "idle")

\* C33 happens: a call whose scan found several matches of one pattern on
\* one line has looked all of them up and is about to return.
C33_CallThrough ==
  /\ scanner.pc = "resolve"
  /\ scanner.index = Len(scanner.mangledSymbols)
  /\ \E i, j \in DOMAIN scanner.mangledSymbols :
       /\ i < j
       /\ scanner.mangledSymbols[i].demangler = scanner.mangledSymbols[j].demangler
       /\ scanner.mangledSymbols[i].position.line
            = scanner.mangledSymbols[j].position.line

\* C34: the lastIndex of every pattern is 0 between two lines and between
\* two calls, and that of a pattern is 0 when the while loop on a line
\* starts with it, since the loop before ran until exec found nothing; so
\* the matches pushed for a line are all the matches of the line, and those
\* of a call all the matches of its lines, whatever was scanned before.
C34_LastIndexReset ==
  /\ scanner.pc # "exec" => \A d \in Demanglers : scanner.lastIndex[d] = 0
  /\ scanner.pc = "exec" =>
       \A k \in DOMAIN demanglers :
         (k # scanner.demangler \/ scanner.execs = 0) =>
           scanner.lastIndex[demanglers[k]] = 0
  /\ (scanner.pc = "line" /\ scanner.line > 0) =>
       scanner.lineSymbols
         = ScanDemanglers(scanner.spawnable,
                          scanner.document[scanner.line].text, scanner.line - 1, 1)
  /\ scanner.pc = "resolve" =>
       scanner.mangledSymbols
         = ScanLines(scanner.spawnable, scanner.document, 0, Len(scanner.document))

\* C34 happens: the third line of a call has been scanned, after lines with
\* several matches of one pattern, and a match on it was found.
C34_LineAfterLines ==
  /\ scanner.pc = "line"
  /\ scanner.line = 3
  /\ scanner.lineSymbols # <<>>
  /\ Len(scanner.mangledSymbols) >= 4 + Len(scanner.lineSymbols)


-----------------------------------------------------------------------------
(* The warning and the unchanged path.                                      *)

\* C36: a configuration change that affects a demangler's section and leaves
\* its tool path equal to the path probed last makes updateAvailability return
\* false: the path is read and not probed, no warning is shown, the path and
\* the availability stay, and an event of which this is true for every section
\* it affects clears no cache and fires no invalidation.  The change that the
\* warning's answer writes is such an event.
C36_UnchangedPathShortCircuits ==
  /\ \A i \in DOMAIN reports :
       LET r == reports[i]
       IN (r.onEvent /\ r.affected /\ r.pathBefore = toolPathSetting[r.demangler])
            => /\ r.read /\ ~r.probed /\ ~r.warned /\ ~r.changed
               /\ r.pathAfter = r.pathBefore
               /\ r.availableAfter = r.availableBefore
               /\ currentToolPath[r.demangler] = r.pathBefore
               /\ canSpawnTool[r.demangler] = r.availableBefore
  /\ ( /\ reports # <<>>
       /\ \A i \in DOMAIN reports :
            /\ reports[i].onEvent
            /\ reports[i].affected
                 => reports[i].pathBefore = toolPathSetting[reports[i].demangler] )
       => notices = <<>>
  /\ answered.value # "none"
       => \A i \in DOMAIN reports :
            /\ reports[i].demangler = answered.demangler <=> reports[i].affected
            /\ ~reports[i].probed /\ ~reports[i].warned
            /\ notices = <<>>

\* The answer "Don't Show Again" to the warning of an unavailable tool has
\* written the setting, and the listener has read the unchanged path.
C36_DialogUpdateShortCircuited ==
  /\ answered.value = "Don't Show Again"
  /\ answered.warnBefore
  /\ ~warnIfToolPathIsInvalid[answered.demangler]
  /\ ~canSpawnTool[answered.demangler]
  /\ \E i \in DOMAIN reports :
       /\ reports[i].demangler = answered.demangler
       /\ reports[i].affected /\ reports[i].read /\ ~reports[i].probed

\* C37: the answer to the warning decides what is done.  "Open in Settings"
\* opens the settings and leaves warnIfToolPathIsInvalid as it was; "Don't Show
\* Again" sets it to false and opens nothing; a dismissed warning does
\* neither.
C37_AnswerDecides ==
  answered.value # "none"
    => LET d == answered.demangler
       IN /\ answered.value = "Open in Settings"
               => /\ answered.openedSettings
                  /\ warnIfToolPathIsInvalid[d] = answered.warnBefore
          /\ answered.value = "Don't Show Again"
               => /\ ~answered.openedSettings
                  /\ ~warnIfToolPathIsInvalid[d]
          /\ answered.value = "undefined"
               => /\ ~answered.openedSettings
                  /\ warnIfToolPathIsInvalid[d] = answered.warnBefore

-----------------------------------------------------------------------------
(* A demangle that raises.                                                  *)

\* C38: when demangle raises for a symbol during a call, no cache entry is
\* made for the symbol and the cache is left as it was, entries of earlier
\* lookups of the call included; and the call whose await the failure reaches
\* rejects: it leaves the calls in flight without a return, and neither
\* decorations nor the active symbol are set from the results it had.
C38_FailureLeavesCacheConsistent ==
  [][ /\ \A i \in DOMAIN lookups' :
           (lookups'[i].demangled /\ ~lookups'[i].stored)
             => /\ lookups'[i].cached = "absent"
                /\ lookups'[i].symbol \notin DOMAIN demangleCache'
                /\ demangleCache' = demangleCache
      /\ ( /\ ResumeCall
           /\ Head(calls).awaited = Threw )
           => /\ calls' = Tail(calls)
              /\ lookups' = <<>>
              /\ demangleCache' = demangleCache
              /\ decorations' = decorations
              /\ activeDemangledSymbol' = activeDemangledSymbol
              /\ applied' = applied
              /\ finished' = finished ]_vars

\* The demangle of a call's later symbol has just raised: the call holds the
\* result of an earlier symbol, whose entry is in the cache.
C38_RaisedAfterResult ==
  /\ \E i \in DOMAIN lookups : lookups[i].demangled /\ ~lookups[i].stored
  /\ \E c \in DOMAIN calls :
       /\ calls[c].awaited = Threw
       /\ calls[c].results # <<>>
       /\ \E j \in 1..(calls[c].index - 1) :
            Str(calls[c].mangledSymbols[j].symbol) \in DOMAIN demangleCache

-----------------------------------------------------------------------------
(* The spans of one call.                                                   *)

\* C39: in what a call returns, an occurrence (demangler, line, start column)
\* has at most one span, also when the call was given two ranges whose padded
\* windows share lines.
C39_NoDuplicateSpans ==
  \A c \in DOMAIN calls :
    calls[c].state = "returned"
      => /\ \A i, j \in DOMAIN calls[c].mangledSymbols :
              ( /\ i < j
                /\ calls[c].mangledSymbols[i].demangler
                     = calls[c].mangledSymbols[j].demangler
                /\ calls[c].mangledSymbols[i].position
                     = calls[c].mangledSymbols[j].position )
                => calls[c].outcomes[i] = Null \/ calls[c].outcomes[j] = Null
         /\ \A i, j \in DOMAIN calls[c].results :
              i < j => calls[c].results[i].range # calls[c].results[j].range

-----------------------------------------------------------------------------
(* What leaves the copier's active symbol alone.                            *)

=============================================================================
